---- MODULE Spec2Model ----
(***************************************************************************)
(* Model of the vatel endpoint compiler (Vatel.buildHandlers,              *)
(* Endpoint.compile) and of the per-request dispatcher (Endpoint.handler). *)
(* Strings that the code compares, upper-cases or joins (HTTP methods and  *)
(* paths) are sequences of ASCII codes; other strings are TLA+ strings.    *)
(***************************************************************************)
EXTENDS Integers, Sequences, FiniteSets, TLC

VARIABLES ep, auth, td, pm, rtc, authDisabled, mdw, cfg, mux, built, req, masking, decoding,
          serving

vars == <<ep, auth, td, pm, rtc, authDisabled, mdw, cfg, mux, built, req, masking, decoding, serving>>

(* ------------------------------ bounds --------------------------------- *)

\* number of endpoints the application adds with Add before the compile pass
MaxEndpoints == 1

\* number of middlewares the application registers with AddMiddleware
MaxMdw == 1

\* number of endpoints the application adds when the compile pass is
\* examined alone
MaxDeclared == 2

\* number of elements of the array of a masked JSON document
MaxElems == 2

(* ------------------------- strings as ASCII ---------------------------- *)

GET == <<71, 69, 84>>
get == <<103, 101, 116>>
POST == <<80, 79, 83, 84>>
post == <<112, 111, 115, 116>>
PUT == <<80, 85, 84>>
PATCH == <<80, 65, 84, 67, 72>>
DELETE == <<68, 69, 76, 69, 84, 69>>
TRACE == <<84, 82, 65, 67, 69>>

Slash == 47
LBrace == 123
RBrace == 125

\* "/"
PathRoot == <<47>>
\* "/a"
PathA == <<47, 97>>
\* "/a/{id}"
PathAId == <<47, 97, 47, 123, 105, 100, 125>>
\* "/b"
PathB == <<47, 98>>
\* "/api"
PrefixApi == <<47, 97, 112, 105>>

\* strings.ToUpper on an ASCII string
ToUpper(s) == [i \in 1..Len(s) |-> IF s[i] >= 97 /\ s[i] <= 122 THEN s[i] - 32 ELSE s[i]]

\* Go's < on strings: bytewise lexicographic order
RECURSIVE StrLess(_, _)
StrLess(a, b) ==
    IF b = <<>> THEN FALSE
    ELSE IF a = <<>> THEN TRUE
    ELSE IF a[1] # b[1] THEN a[1] < b[1]
    ELSE StrLess(Tail(a), Tail(b))

\* path.Clean restricted to paths without "." and ".." elements: runs of
\* slashes collapse and a trailing slash is dropped, the root stays "/"
RECURSIVE Squeeze(_)
Squeeze(s) ==
    IF Len(s) < 2 THEN s
    ELSE IF s[1] = Slash /\ s[2] = Slash THEN Squeeze(Tail(s))
    ELSE <<s[1]>> \o Squeeze(Tail(s))

Clean(s) ==
    LET q == Squeeze(s)
    IN  IF q = <<>> THEN <<46>>
        ELSE IF Len(q) > 1 /\ q[Len(q)] = Slash THEN SubSeq(q, 1, Len(q) - 1)
        ELSE q

\* path.Join(a, b): empty elements are ignored, the rest is joined with "/"
\* and cleaned
Join(a, b) ==
    IF a = <<>> /\ b = <<>> THEN <<>>
    ELSE IF a = <<>> THEN Clean(b)
    ELSE IF b = <<>> THEN Clean(a)
    ELSE Clean(a \o <<Slash>> \o b)

\* regexp (?s)\{(.*)\} matches: some "{" is followed, anywhere later, by "}"
pathHasParam(p) ==
    \E i \in 1..Len(p) : \E j \in 1..Len(p) : i < j /\ p[i] = LBrace /\ p[j] = RBrace

(* --------------------------- collaborators ----------------------------- *)

\* the permission names the bound PermissionManager knows, with the bit
\* position PermissionBitPos returns for each
KnownPerms == {"orders:read", "orders:write"}

PermissionBitPos(perm) ==
    IF perm = "orders:read" THEN [pos |-> 0, ok |-> TRUE]
    ELSE IF perm = "orders:write" THEN [pos |-> 1, ok |-> TRUE]
    ELSE [pos |-> 0, ok |-> FALSE]

\* controllers: the capability interfaces the value returned by the
\* controller factory implements
\* resultStruct tells whether Result() returns a structure or a pointer to one
Ctl(p, i, r) ==
    [paramer |-> p, inputer |-> i, resulter |-> r, resultFields |-> 1, resultStruct |-> TRUE]

\* a controller whose Result() returns a value that is not a structure, a
\* slice for instance
CtlList(p, i) == [Ctl(p, i, TRUE) EXCEPT !.resultStruct = FALSE]

\* LogOption bits
LogSilent == 1
LogEnter == 2
LogExit == 4
LogReqBody == 8
LogReqInput == 16
LogRespBody == 32
LogRespOutput == 64
LogUnknown == 0
LogFull == 62

MiddlewarePos == {"BeforeAuthorization", "AfterAuthorization", "OnSuccessResponse"}

(* ---------------------------- declarations ----------------------------- *)

\* an Endpoint value as the application declares it: the exported fields are
\* set, the unexported ones have their zero values
Declare(method, path, perms, ctl) ==
    [Method |-> method, Path |-> path, Perms |-> perms, Controller |-> ctl,
     LogOptions |-> LogUnknown,
     isPathParametrized |-> FALSE, isURLQueryExpected |-> FALSE,
     isRequestBodyExpected |-> FALSE, hasRespBody |-> FALSE,
     auth |-> FALSE, td |-> FALSE, pm |-> FALSE, rtc |-> FALSE,
     perms |-> <<>>,
     middlewares |-> [p \in MiddlewarePos |-> <<>>],
     ala |-> FALSE, mr |-> FALSE, jm |-> FALSE, resultFields |-> 0,
     staticLoggingLevel |-> FALSE, verboseError |-> FALSE]

\* the endpoint NewVatel puts in front of the list: GET / with the
\* table-of-contents controller, which implements Handler only
TocEndpoint == Declare(GET, PathRoot, <<>>, Ctl(FALSE, FALSE, FALSE))

\* the endpoints the application may declare
Declarations ==
    { Declare(GET, PathA, <<>>, Ctl(FALSE, TRUE, TRUE)),
      Declare(get, PathAId, <<"orders:read">>, Ctl(TRUE, TRUE, TRUE)),
      Declare(POST, PathA, <<"orders:read", "orders:write">>, Ctl(FALSE, TRUE, FALSE)),
      Declare(DELETE, PathAId, <<"orders:write">>, Ctl(FALSE, FALSE, FALSE)),
      Declare(PUT, PathB, <<>>, Ctl(TRUE, TRUE, TRUE)),
      Declare(GET, PathB, <<"orders:purge">>, Ctl(FALSE, FALSE, TRUE)),
      Declare(TRACE, PathB, <<>>, Ctl(FALSE, FALSE, FALSE)) }

\* the option sets NewVatel is called with
Options ==
    { [urlPrefix |-> <<>>, defaultLogOption |-> LogUnknown, staticLoggingLevel |-> FALSE,
       verboseError |-> FALSE, jm |-> FALSE, ala |-> FALSE, mr |-> FALSE],
      [urlPrefix |-> PrefixApi, defaultLogOption |-> LogFull, staticLoggingLevel |-> TRUE,
       verboseError |-> TRUE, jm |-> TRUE, ala |-> TRUE, mr |-> TRUE],
      [urlPrefix |-> <<>>, defaultLogOption |-> LogFull, staticLoggingLevel |-> FALSE,
       verboseError |-> FALSE, jm |-> FALSE, ala |-> FALSE, mr |-> TRUE] }

(* ------------------------------ compile -------------------------------- *)

NoError == [msg |-> "nil", method |-> <<>>, path |-> <<>>, perm |-> ""]

\* fmt.Errorf("endpoint %s %s ...", e.Method, opath)
Errorf(msg, method, opath, perm) == [msg |-> msg, method |-> method, path |-> opath, perm |-> perm]

\* lo & bit == bit, for a single bit
HasBit(lo, bit) == (lo \div bit) % 2 = 1

\* the registry as compile reads it
Registry == [auth |-> auth, td |-> td, pm |-> pm, rtc |-> rtc,
             authDisabled |-> authDisabled, mdw |-> mdw, cfg |-> cfg]

\* the binding of the shared collaborators and the defaults
bindCollaborators(e, v) ==
    [e EXCEPT !.Path = Join(v.cfg.urlPrefix, e.Path),
              !.auth = v.auth, !.td = v.td, !.pm = v.pm, !.rtc = v.rtc,
              !.middlewares = v.mdw,
              !.staticLoggingLevel = v.cfg.staticLoggingLevel,
              !.verboseError = v.cfg.verboseError,
              !.jm = v.cfg.jm, !.ala = v.cfg.ala, !.mr = v.cfg.mr,
              !.LogOptions = IF e.LogOptions = LogUnknown THEN v.cfg.defaultLogOption
                             ELSE e.LogOptions]

\* the collaborator checks without the check of the token decoder
collaboratorCheck_noDecoder(e, v) ==
    IF ~e.auth /\ ~v.authDisabled THEN "requires calling SetAuthorizer() before"
    ELSE IF ~e.pm /\ ~v.authDisabled THEN "requires calling SetPermissionManager() before"
    ELSE "nil"

\* the three collaborator checks of an endpoint that declares permissions:
\* the message of the first one that fails, "nil" when all pass
collaboratorCheck(e, v) ==
    IF ~e.auth /\ ~v.authDisabled THEN "requires calling SetAuthorizer() before"
    ELSE IF ~e.td /\ ~v.authDisabled THEN "requires calling SetTokenDecode() before"
    ELSE IF ~e.pm /\ ~v.authDisabled THEN "requires calling SetPermissionManager() before"
    ELSE "nil"

\* the loop over e.Perms: positions are appended to e.perms until a name is
\* unknown; bad is the index of that name, 0 when all are known
RECURSIVE resolvePerms(_, _, _)
resolvePerms(Perms, i, acc) ==
    IF i > Len(Perms) THEN [perms |-> acc, bad |-> 0]
    ELSE LET r == PermissionBitPos(Perms[i])
         IN  IF ~r.ok THEN [perms |-> acc, bad |-> i]
             ELSE resolvePerms(Perms, i + 1, Append(acc, r.pos))

\* the contract check without its second half
paramerCheck_oneWay(isParamer, hasParam) ==
    IF ~isParamer /\ hasParam
    THEN "path has parameters, but controller does not implement Paramer"
    ELSE "nil"

\* the path/controller contract check
paramerCheck(isParamer, hasParam) ==
    IF ~isParamer /\ hasParam
    THEN "path has parameters, but controller does not implement Paramer"
    ELSE IF isParamer /\ ~hasParam
    THEN "path has no parameters, but controller implement Paramer"
    ELSE "nil"

\* the method switch with DELETE among the methods that carry a body
methodWiring_deleteBody(method) ==
    IF method \in {GET} THEN "query"
    ELSE IF method \in {POST, PUT, PATCH, DELETE} THEN "body"
    ELSE "unknown"

\* the method switch: which decoding an Inputer is wired to
methodWiring(method) ==
    IF method \in {GET, DELETE} THEN "query"
    ELSE IF method \in {POST, PUT, PATCH} THEN "body"
    ELSE "unknown"

\* the part of compile after the permission block; RawJsonMask.fields panics
\* on a result that is not a structure
compileController(e, opath) ==
    LET c == e.Controller
        pc1 == paramerCheck(c.paramer, pathHasParam(e.Path))
        e1 == [e EXCEPT !.isPathParametrized = c.paramer, !.hasRespBody = c.resulter,
                        !.resultFields = IF c.resulter /\ e.jm THEN c.resultFields ELSE @]
        w == methodWiring(e.Method)
    IN  IF pc1 # "nil"
        THEN [e |-> e, err |-> Errorf(pc1, e.Method, opath, ""), panic |-> FALSE]
        ELSE IF c.resulter /\ e.jm /\ ~c.resultStruct
        THEN [e |-> [e EXCEPT !.isPathParametrized = c.paramer], err |-> NoError, panic |-> TRUE]
        ELSE IF w = "query"
        THEN [e |-> [e1 EXCEPT !.isURLQueryExpected = c.inputer], err |-> NoError, panic |-> FALSE]
        ELSE IF w = "body"
        THEN [e |-> [e1 EXCEPT !.isRequestBodyExpected = c.inputer], err |-> NoError, panic |-> FALSE]
        ELSE [e |-> e1, err |-> Errorf("has unknown HTTP method", e.Method, opath, ""), panic |-> FALSE]

\* Endpoint.compile: the endpoint as compile leaves it, the error it returns
\* and whether it panics (a method call on the nil PermissionManager)
compile(e, v) ==
    LET opath == e.Path
        e1 == bindCollaborators(e, v)
        cc == collaboratorCheck(e1, v)
        rp == resolvePerms(e1.Perms, 1, e1.perms)
    IN  IF Len(e1.Perms) = 0 THEN compileController(e1, opath)
        ELSE IF cc # "nil"
        THEN [e |-> e1, err |-> Errorf(cc, e1.Method, opath, ""), panic |-> FALSE]
        ELSE IF ~v.pm
        THEN [e |-> e1, err |-> NoError, panic |-> TRUE]
        ELSE IF rp.bad # 0
        THEN [e |-> [e1 EXCEPT !.perms = rp.perms],
              err |-> Errorf("mentioned unknown permission", e1.Method, opath, e1.Perms[rp.bad]),
              panic |-> FALSE]
        ELSE compileController([e1 EXCEPT !.perms = rp.perms], opath)

(* --------------------------- buildHandlers ----------------------------- *)

\* a comparison function that looks at the path only
less_pathOnly(a, b) == StrLess(a.Path, b.Path)

\* the comparison function given to sort.Slice
less(a, b) ==
    IF a.Path = b.Path THEN StrLess(a.Method, b.Method) ELSE StrLess(a.Path, b.Path)

\* sort.Slice on a slice of at most 6 elements is an insertion sort
RECURSIVE insert(_, _)
insert(s, x) ==
    IF s = <<>> THEN <<x>>
    ELSE IF less(x, s[Len(s)]) THEN Append(insert(SubSeq(s, 1, Len(s) - 1), x), s[Len(s)])
    ELSE Append(s, x)

RECURSIVE insertionSort(_)
insertionSort(s) ==
    IF s = <<>> THEN <<>>
    ELSE insert(insertionSort(SubSeq(s, 1, Len(s) - 1)), s[Len(s)])

\* the router panics when a handler is registered twice for a method and path
isRegistered(routes, e) ==
    \E k \in 1..Len(routes) : routes[k].Method = e.Method /\ routes[k].Path = e.Path

\* a loop that goes on with the next endpoint after a failed compile and
\* returns the first error at the end
RECURSIVE compileLoop_skipFailed(_, _, _, _)
compileLoop_skipFailed(eps, i, routes, v) ==
    IF i > Len(eps) THEN [ep |-> eps, mux |-> routes, err |-> NoError, result |-> "ok"]
    ELSE LET r == compile(eps[i], v)
             eps1 == [eps EXCEPT ![i] = r.e]
         IN  IF r.panic THEN [ep |-> eps1, mux |-> routes, err |-> NoError, result |-> "panic"]
             ELSE IF r.err # NoError
             THEN LET rest == compileLoop_skipFailed(eps1, i + 1, routes, v)
                  IN  IF rest.result = "panic" THEN rest
                      ELSE [rest EXCEPT !.err = r.err, !.result = "error"]
             ELSE IF isRegistered(routes, r.e)
             THEN [ep |-> eps1, mux |-> routes, err |-> NoError, result |-> "panic"]
             ELSE compileLoop_skipFailed(eps1, i + 1,
                              Append(routes, [Method |-> r.e.Method, Path |-> r.e.Path, e |-> i]), v)

\* the loop of buildHandlers from index i on: compile, then register
RECURSIVE compileLoop(_, _, _, _)
compileLoop(eps, i, routes, v) ==
    IF i > Len(eps) THEN [ep |-> eps, mux |-> routes, err |-> NoError, result |-> "ok"]
    ELSE LET r == compile(eps[i], v)
             eps1 == [eps EXCEPT ![i] = r.e]
         IN  IF r.panic THEN [ep |-> eps1, mux |-> routes, err |-> NoError, result |-> "panic"]
             ELSE IF r.err # NoError
             THEN [ep |-> eps1, mux |-> routes, err |-> r.err, result |-> "error"]
             ELSE IF isRegistered(routes, r.e)
             THEN [ep |-> eps1, mux |-> routes, err |-> NoError, result |-> "panic"]
             ELSE compileLoop(eps1, i + 1,
                              Append(routes, [Method |-> r.e.Method, Path |-> r.e.Path, e |-> i]), v)

buildHandlers(eps, routes, v) ==
    LET up == [i \in 1..Len(eps) |-> [eps[i] EXCEPT !.Method = ToUpper(eps[i].Method)]]
    IN  compileLoop(insertionSort(up), 1, routes, v)

(* ------------------------- request-time errors ------------------------- *)

\* an error value: kind "plain" is an error that is not an *errors.CatchedError,
\* kind "catched" carries a status code and attributes
RtErr(kind, status, msg, code) ==
    [kind |-> kind, status |-> status, msg |-> msg, code |-> code,
     user |-> "", role |-> 0, perms |-> <<>>]

NilErr == RtErr("nil", 0, "", "")

\* the header error with the status of the forbidden error
ErrAuthorizationHeaderMissed_403 == RtErr("catched", 403, "header Authorization missed", "VTL-0001")

ErrAuthorizationHeaderMissed == RtErr("catched", 401, "header Authorization missed", "VTL-0001")
ErrAccessTokenRevoked == RtErr("catched", 401, "access token revoked", "VTL-0002")

\* errors.Forbidden(), errors.ValidationFailed(msg), errors.InvalidRequestBody(msg)
Forbidden == RtErr("catched", 403, "forbidden", "")
ValidationFailed(msg) == RtErr("catched", 400, msg, "")
InvalidRequestBody(msg) == RtErr("catched", 400, msg, "")

\* errors.Catch(err): a CatchedError is returned as it is, with the status it
\* carries; any other error is wrapped and gets the library's default status
Catch(err) ==
    IF err.kind = "catched" THEN err ELSE [err EXCEPT !.kind = "catched", !.status = 500]

\* the errors a collaborator, a middleware or a controller may return
AppErrors ==
    { RtErr("plain", 0, "failure", ""),
      RtErr("catched", 404, "not found", "APP-0404") }

\* the identity payloads TokenDecoder.Decode may produce
Tokens ==
    { [login |-> "alice", role |-> 1, debug |-> FALSE],
      [login |-> "bob", role |-> 2, debug |-> TRUE] }

NoToken == [login |-> "", role |-> 0, debug |-> FALSE]

Ev(stage, n) == [stage |-> stage, n |-> n]

(* ----------------------------- dispatcher ------------------------------ *)

\* the request before the router hands it to a handler
IdleReq ==
    [pc |-> "idle", e |-> 0, descr |-> FALSE, verbose |-> FALSE, lo |-> 0,
     tp |-> NoToken, trace |-> <<>>, status |-> 200, ctype |-> "",
     body |-> <<>>, metrics |-> <<>>, alarms |-> 0, err |-> NilErr,
     hdr |-> "notread", revoked |-> "notcalled", decoded |-> "notcalled",
     allowed |-> "notcalled", token |-> NoToken, failedAt |-> "none",
     loReads |-> <<>>]

\* the handler with the controller instantiated after the after-authorization
\* middlewares
nextStage_lateInit(pc) ==
    CASE pc = "before" -> "auth"
      [] pc = "auth" -> "descr"
      [] pc = "descr" -> "after"
      [] pc = "after" -> "init"
      [] pc = "init" -> "handle"
      [] pc = "handle" -> "write"
      [] pc = "write" -> "complete"
      [] pc = "complete" -> "success"
      [] pc = "success" -> "done"

\* the handler with the description served before the authorization
nextStage_descrFirst(pc) ==
    CASE pc = "before" -> "descr"
      [] pc = "descr" -> "auth"
      [] pc = "auth" -> "init"
      [] pc = "init" -> "after"
      [] pc = "after" -> "handle"
      [] pc = "handle" -> "write"
      [] pc = "write" -> "complete"
      [] pc = "complete" -> "success"
      [] pc = "success" -> "done"

\* the order of the statements of the handler: the stage that follows a
\* stage that returned no error
nextStage(pc) ==
    CASE pc = "before" -> "auth"
      [] pc = "auth" -> "descr"
      [] pc = "descr" -> "init"
      [] pc = "init" -> "after"
      [] pc = "after" -> "handle"
      [] pc = "handle" -> "write"
      [] pc = "write" -> "complete"
      [] pc = "complete" -> "success"
      [] pc = "success" -> "done"

\* writeErrorResponse in a handler that does not return after it
writeErrorResponse_noReturn(e, r, err) ==
    LET statusCode == IF err.kind = "catched" THEN err.status ELSE 500
        alarm == e.ala /\ statusCode >= 500
    IN  [r EXCEPT !.pc = IF r.pc = "success" THEN "done" ELSE nextStage(r.pc),
                  !.failedAt = r.pc,
                  !.err = err,
                  !.ctype = "application/json; charset=utf-8",
                  !.status = statusCode,
                  !.body = Append(@, [kind |-> "error", message |-> err.msg, code |-> err.code,
                                      verbose |-> r.verbose]),
                  !.metrics = IF e.mr THEN Append(@, statusCode) ELSE @,
                  !.alarms = IF alarm THEN @ + 1 ELSE @,
                  !.trace = @ \o <<Ev("writeErrorResponse", statusCode)>>
                              \o (IF e.mr THEN <<Ev("ReportMetric", statusCode)>> ELSE <<>>)
                              \o (IF alarm THEN <<Ev("Alarm", statusCode)>> ELSE <<>>)]

\* writeErrorResponse without the default of 500: an error that is not a
\* CatchedError leaves the status of the response as it is
writeErrorResponse_noDefault(e, r, err) ==
    LET statusCode == IF err.kind = "catched" THEN err.status ELSE r.status
        alarm == e.ala /\ statusCode >= 500
    IN  [r EXCEPT !.pc = "done",
                  !.failedAt = r.pc,
                  !.err = err,
                  !.ctype = "application/json; charset=utf-8",
                  !.status = statusCode,
                  !.body = Append(@, [kind |-> "error", message |-> err.msg, code |-> err.code,
                                      verbose |-> r.verbose]),
                  !.metrics = IF e.mr THEN Append(@, statusCode) ELSE @,
                  !.alarms = IF alarm THEN @ + 1 ELSE @,
                  !.trace = @ \o <<Ev("writeErrorResponse", statusCode)>>
                              \o (IF e.mr THEN <<Ev("ReportMetric", statusCode)>> ELSE <<>>)
                              \o (IF alarm THEN <<Ev("Alarm", statusCode)>> ELSE <<>>)]

\* writeErrorResponse with an alarm for the statuses above 500 only
writeErrorResponse_alarmAbove500(e, r, err) ==
    LET statusCode == IF err.kind = "catched" THEN err.status ELSE 500
        alarm == e.ala /\ statusCode > 500
    IN  [r EXCEPT !.pc = "done",
                  !.failedAt = r.pc,
                  !.err = err,
                  !.ctype = "application/json; charset=utf-8",
                  !.status = statusCode,
                  !.body = Append(@, [kind |-> "error", message |-> err.msg, code |-> err.code,
                                      verbose |-> r.verbose]),
                  !.metrics = IF e.mr THEN Append(@, statusCode) ELSE @,
                  !.alarms = IF alarm THEN @ + 1 ELSE @,
                  !.trace = @ \o <<Ev("writeErrorResponse", statusCode)>>
                              \o (IF e.mr THEN <<Ev("ReportMetric", statusCode)>> ELSE <<>>)
                              \o (IF alarm THEN <<Ev("Alarm", statusCode)>> ELSE <<>>)]

\* Endpoint.writeErrorResponse
writeErrorResponse(e, r, err) ==
    LET statusCode == IF err.kind = "catched" THEN err.status ELSE 500
        alarm == e.ala /\ statusCode >= 500
    IN  [r EXCEPT !.pc = "done",
                  !.failedAt = r.pc,
                  !.err = err,
                  !.ctype = "application/json; charset=utf-8",
                  !.status = statusCode,
                  !.body = Append(@, [kind |-> "error", message |-> err.msg, code |-> err.code,
                                      verbose |-> r.verbose]),
                  !.metrics = IF e.mr THEN Append(@, statusCode) ELSE @,
                  !.alarms = IF alarm THEN @ + 1 ELSE @,
                  !.trace = @ \o <<Ev("writeErrorResponse", statusCode)>>
                              \o (IF e.mr THEN <<Ev("ReportMetric", statusCode)>> ELSE <<>>)
                              \o (IF alarm THEN <<Ev("Alarm", statusCode)>> ELSE <<>>)]

\* a middleware phase: the middlewares of the list are called in order, up to
\* and including the first that returns an error; k is the index of that one,
\* 0 when none fails
mwCalls(pos, list, k) ==
    [j \in 1..(IF k = 0 THEN Len(list) ELSE k) |-> Ev(pos, list[j])]

\* an authorization step that is skipped for a single permission
authRequired_manyPerms(e) == Len(e.Perms) > 1 /\ e.auth

\* the condition under which the handler runs the authorization step
authRequired(e) == Len(e.Perms) > 0 /\ e.auth

\* the attributes without the role
withIdentity_noRole(err, token, e) ==
    [err EXCEPT !.user = token.login, !.perms = e.Perms]

\* the attributes authorize sets on the error of a decoded credential: the
\* login and the role of the identity and the permission names of the endpoint
withIdentity(err, token, e) ==
    [err EXCEPT !.user = token.login, !.role = token.role, !.perms = e.Perms]

\* authorize with the credential decoded before the revocation check
authorize_decodeFirst(e, in) ==
    LET base == [token |-> NoToken, decodedToken |-> NoToken, err |-> NilErr, panic |-> FALSE, calls |-> <<>>,
                 hdr |-> IF in.hdr THEN "present" ELSE "missing",
                 revoked |-> "notcalled", decoded |-> "notcalled", allowed |-> "notcalled"]
        rtcCalls == IF e.rtc THEN <<Ev("IsTokenRevoked", 0)>> ELSE <<>>
        afterRtc == [base EXCEPT !.calls = rtcCalls,
                                 !.revoked = IF e.rtc THEN in.rtc.res ELSE "notcalled"]
        afterDec == [afterRtc EXCEPT !.calls = @ \o <<Ev("Decode", 0)>>,
                                     !.decoded = in.dec.res,
                                     !.decodedToken = in.dec.token]
        afterAllow == [afterDec EXCEPT !.calls = @ \o <<Ev("IsAllowed", 0)>>,
                                       !.allowed = in.allow.res]
        decFirst == [base EXCEPT !.calls = <<Ev("Decode", 0)>>, !.decoded = in.dec.res,
                                 !.decodedToken = in.dec.token]
        afterRtcM == [decFirst EXCEPT !.calls = @ \o rtcCalls,
                                      !.revoked = IF e.rtc THEN in.rtc.res ELSE "notcalled"]
        afterAllowM == [afterRtcM EXCEPT !.calls = @ \o <<Ev("IsAllowed", 0)>>,
                                         !.allowed = in.allow.res]
        who(err) == withIdentity(err, in.dec.token, e)
    IN  IF ~in.hdr THEN [base EXCEPT !.err = ErrAuthorizationHeaderMissed]
        ELSE IF ~e.td THEN [base EXCEPT !.panic = TRUE]
        ELSE IF in.dec.res = "err"
        THEN [decFirst EXCEPT !.err = [Catch(in.dec.err) EXCEPT !.perms = e.Perms,
                                                                 !.msg = "unauthorized"]]
        ELSE IF e.rtc /\ in.rtc.res = "err" THEN [afterRtcM EXCEPT !.err = in.rtc.err]
        ELSE IF e.rtc /\ in.rtc.res = "revoked" THEN [afterRtcM EXCEPT !.err = ErrAccessTokenRevoked]
        ELSE IF in.allow.res = "true" THEN [afterAllowM EXCEPT !.token = in.dec.token]
        ELSE IF in.allow.res = "false" THEN [afterAllowM EXCEPT !.err = who(Forbidden)]
        ELSE [afterAllowM EXCEPT !.err = [who(Catch(in.allow.err)) EXCEPT !.status = 401]]

\* Endpoint.authorize on the inputs in: whether the header is present and
\* what the collaborators answer when they are called
authorize(e, in) ==
    LET base == [token |-> NoToken, decodedToken |-> NoToken, err |-> NilErr, panic |-> FALSE, calls |-> <<>>,
                 hdr |-> IF in.hdr THEN "present" ELSE "missing",
                 revoked |-> "notcalled", decoded |-> "notcalled", allowed |-> "notcalled"]
        rtcCalls == IF e.rtc THEN <<Ev("IsTokenRevoked", 0)>> ELSE <<>>
        afterRtc == [base EXCEPT !.calls = rtcCalls,
                                 !.revoked = IF e.rtc THEN in.rtc.res ELSE "notcalled"]
        afterDec == [afterRtc EXCEPT !.calls = @ \o <<Ev("Decode", 0)>>,
                                     !.decoded = in.dec.res,
                                     !.decodedToken = in.dec.token]
        afterAllow == [afterDec EXCEPT !.calls = @ \o <<Ev("IsAllowed", 0)>>,
                                       !.allowed = in.allow.res]
        who(err) == withIdentity(err, in.dec.token, e)
    IN  IF ~in.hdr THEN [base EXCEPT !.err = ErrAuthorizationHeaderMissed]
        ELSE IF e.rtc /\ in.rtc.res = "err" THEN [afterRtc EXCEPT !.err = in.rtc.err]
        ELSE IF e.rtc /\ in.rtc.res = "revoked" THEN [afterRtc EXCEPT !.err = ErrAccessTokenRevoked]
        ELSE IF ~e.td THEN [afterRtc EXCEPT !.panic = TRUE]
        ELSE IF in.dec.res = "err"
        THEN [afterDec EXCEPT !.err = [Catch(in.dec.err) EXCEPT !.perms = e.Perms,
                                                                 !.msg = "unauthorized"]]
        ELSE IF in.allow.res = "true" THEN [afterAllow EXCEPT !.token = in.dec.token]
        ELSE IF in.allow.res = "false" THEN [afterAllow EXCEPT !.err = who(Forbidden)]
        ELSE [afterAllow EXCEPT !.err = [who(Catch(in.allow.err)) EXCEPT !.status = 401]]

\* the answers of the collaborators of one request
AuthInputs ==
    [hdr : BOOLEAN,
     rtc : {[res |-> "ok", err |-> NilErr], [res |-> "revoked", err |-> NilErr]}
           \cup {[res |-> "err", err |-> x] : x \in AppErrors},
     dec : {[res |-> "ok", token |-> t, err |-> NilErr] : t \in Tokens}
           \cup {[res |-> "err", token |-> NoToken, err |-> x] : x \in AppErrors},
     allow : {[res |-> "true", err |-> NilErr], [res |-> "false", err |-> NilErr]}
             \cup {[res |-> "err", err |-> x] : x \in AppErrors}]

\* what the wire data of one request decode to: the path values, the query
\* values and the body, each by the way the decoder takes them; "emptydate"
\* is a query value for a Date field that is present and empty
DecodeInputs ==
    [params : {"ok", "bad", "nonstring"},
     query : {"ok", "bad", "unsupported", "emptydate"},
     body : {"ok", "empty", "bad"}]

\* what the attribute bag of the context holds under the key "message" when
\* the handler writes the completion log line
MessageAttributes == {"absent", "string", "nonstring"}

\* decodeParams: a value that does not parse is a validation error, a tag
\* without a string user value panics
decodeParams(in) ==
    IF in.params = "nonstring" THEN [err |-> NilErr, panic |-> TRUE]
    ELSE IF in.params = "bad" THEN [err |-> ValidationFailed("invalid syntax"), panic |-> FALSE]
    ELSE [err |-> NilErr, panic |-> FALSE]

\* decodeURLQuery: the strconv error of a value that does not parse is
\* returned as it is, an unsupported kind is a validation error; date.Parse
\* indexes the first byte of the value and panics on an empty one
decodeURLQuery(in) ==
    IF in.query = "emptydate" THEN [err |-> NilErr, panic |-> TRUE]
    ELSE IF in.query = "bad"
    THEN [err |-> RtErr("plain", 0, "invalid syntax", ""), panic |-> FALSE]
    ELSE IF in.query = "unsupported"
    THEN [err |-> ValidationFailed("unsupported type"), panic |-> FALSE]
    ELSE [err |-> NilErr, panic |-> FALSE]

\* decodeBody: an empty body is an invalid-request-body error, the
\* json.Unmarshal error is returned as it is
decodeBody(in) ==
    IF in.body = "empty" THEN InvalidRequestBody("empty request body. JSON expected")
    ELSE IF in.body = "bad" THEN RtErr("plain", 0, "invalid character", "")
    ELSE NilErr

\* Endpoint.initController: the calls made, the error returned, the panic
initController(e, in) ==
    LET c0 == <<Ev("Controller", 0)>>
        p == decodeParams(in)
        c1 == IF e.isPathParametrized THEN c0 \o <<Ev("decodeParams", 0)>> ELSE c0
        q == decodeURLQuery(in)
        c2 == IF e.isURLQueryExpected THEN c1 \o <<Ev("decodeURLQuery", 0)>> ELSE c1
        b == decodeBody(in)
        c3 == IF e.isRequestBodyExpected THEN c2 \o <<Ev("decodeBody", 0)>> ELSE c2
    IN  IF e.isPathParametrized /\ p.panic THEN [calls |-> c1, err |-> NilErr, panic |-> TRUE]
        ELSE IF e.isPathParametrized /\ p.err # NilErr
        THEN [calls |-> c1, err |-> p.err, panic |-> FALSE]
        ELSE IF e.isURLQueryExpected /\ q.panic
        THEN [calls |-> c2, err |-> NilErr, panic |-> TRUE]
        ELSE IF e.isURLQueryExpected /\ q.err # NilErr
        THEN [calls |-> c2, err |-> q.err, panic |-> FALSE]
        ELSE IF e.isRequestBodyExpected /\ b # NilErr
        THEN [calls |-> c3, err |-> b, panic |-> FALSE]
        ELSE [calls |-> c3, err |-> NilErr, panic |-> FALSE]

\* Endpoint.writeResponse: whether the serialized result is written to the
\* response body; with LogRespBody set and no masker or no result fields the
\* function returns after logging
writesBody(e, lo) ==
    ~HasBit(lo, LogRespBody) \/ (e.jm /\ e.resultFields > 0)

(* ------------------------------ jsonmask ------------------------------- *)

\* JSON values: a string, a number, an object (a function on its keys) and an
\* array (a sequence)
JStr(v) == [t |-> "str", v |-> v, n |-> 0, m |-> <<>>, a |-> <<>>]
JNum(n) == [t |-> "num", v |-> "", n |-> n, m |-> <<>>, a |-> <<>>]
JObj(m) == [t |-> "obj", v |-> "", n |-> 0, m |-> m, a |-> <<>>]
JArr(a) == [t |-> "arr", v |-> "", n |-> 0, m |-> <<>>, a |-> a]

\* the components of a gjson/sjson path, which the code writes separated by
\* dots: a key, an index (from 0) and the "#" of an array
Key(k) == [c |-> "key", k |-> k, i |-> 0]
Idx(i) == [c |-> "idx", k |-> "", i |-> i]
Hash == [c |-> "hash", k |-> "", i |-> 0]

NotExists == [exists |-> FALSE, j |-> JNum(0)]

\* gjson.GetBytes: "#" at the end of a path is the number of elements of the
\* array, "#" followed by a path is the array of the values the path has in
\* the elements
RECURSIVE GetBytes(_, _)
RECURSIVE GetEach(_, _)
GetBytes(j, p) ==
    IF p = <<>> THEN [exists |-> TRUE, j |-> j]
    ELSE LET h == Head(p)
         IN  IF h.c = "key"
             THEN IF j.t = "obj" /\ h.k \in DOMAIN j.m THEN GetBytes(j.m[h.k], Tail(p))
                  ELSE NotExists
             ELSE IF h.c = "idx"
             THEN IF j.t = "arr" /\ h.i < Len(j.a) THEN GetBytes(j.a[h.i + 1], Tail(p))
                  ELSE NotExists
             ELSE IF j.t # "arr" THEN NotExists
             ELSE IF Len(p) = 1 THEN [exists |-> TRUE, j |-> JNum(Len(j.a))]
             ELSE [exists |-> TRUE, j |-> JArr(GetEach(j.a, Tail(p)))]

GetEach(a, p) ==
    IF a = <<>> THEN <<>>
    ELSE LET r == GetBytes(Head(a), p)
         IN  (IF r.exists THEN <<r.j>> ELSE <<>>) \o GetEach(Tail(a), p)

\* gjson Result.Int: the value of a number, 0 for an array or an object
ResultInt(r) == IF r.exists /\ r.j.t = "num" THEN r.j.n ELSE 0

\* a path sjson takes as simple: without "#"
IsSimple(p) == \A i \in DOMAIN p : p[i].c # "hash"

\* the document without the value at a simple path; a path that leads
\* nowhere changes nothing
RECURSIVE Delete(_, _)
Delete(j, p) ==
    LET h == Head(p)
    IN  IF h.c = "key"
        THEN IF j.t # "obj" \/ h.k \notin DOMAIN j.m THEN j
             ELSE IF Len(p) = 1 THEN JObj([k \in DOMAIN j.m \ {h.k} |-> j.m[k]])
             ELSE JObj([j.m EXCEPT ![h.k] = Delete(@, Tail(p))])
        ELSE IF h.c = "idx"
        THEN IF j.t # "arr" \/ h.i >= Len(j.a) THEN j
             ELSE IF Len(p) = 1
             THEN JArr(SubSeq(j.a, 1, h.i) \o SubSeq(j.a, h.i + 2, Len(j.a)))
             ELSE JArr([j.a EXCEPT ![h.i + 1] = Delete(@, Tail(p))])
        ELSE j

\* sjson.DeleteBytes: a path with "#" is refused
DeleteBytes(j, p) ==
    IF IsSimple(p) THEN [buf |-> Delete(j, p), err |-> "nil"]
    ELSE [buf |-> j, err |-> "cannot delete value from a complex path"]

\* the document with the string v at the path: a simple path creates the key
\* it does not find, a "#" stands for every element in which the rest of the
\* path exists
RECURSIVE Set(_, _, _)
Set(j, p, v) ==
    IF p = <<>> THEN JStr(v)
    ELSE LET h == Head(p)
         IN  IF h.c = "key"
             THEN IF j.t # "obj" THEN j
                  ELSE JObj([k \in DOMAIN j.m \cup {h.k} |->
                               IF k # h.k THEN j.m[k]
                               ELSE Set(IF k \in DOMAIN j.m THEN j.m[k] ELSE JObj(<<>>),
                                        Tail(p), v)])
             ELSE IF h.c = "idx"
             THEN IF j.t # "arr" \/ h.i >= Len(j.a) THEN j
                  ELSE JArr([j.a EXCEPT ![h.i + 1] = Set(@, Tail(p), v)])
             ELSE IF j.t # "arr" THEN j
             ELSE JArr([i \in DOMAIN j.a |->
                          IF GetBytes(j.a[i], Tail(p)).exists THEN Set(j.a[i], Tail(p), v)
                          ELSE j.a[i]])

\* sjson.SetBytes: a path with "#" that matches nothing changes nothing
SetBytes(j, p, v) ==
    IF IsSimple(p) \/ GetBytes(j, p).exists THEN Set(j, p, v) ELSE j

\* Field: the name, the tag and the fields of the elements of a
\* slice-of-structure field
Field(name, tag, child) == [name |-> name, tag |-> tag, child |-> child]

\* the names of the masking functions added with AddFunc, and what they return
RegisteredFuncs == {"email"}

Masked == "***"

\* the loop of removals of a key from the elements 0..n-1 of an array
RECURSIVE deleteEach(_, _, _, _, _)
deleteEach(buf, parentAttr, name, j, n) ==
    IF j >= n THEN [buf |-> buf, err |-> "nil"]
    ELSE LET d == DeleteBytes(buf, parentAttr \o <<Idx(j), Key(name)>>)
         IN  IF d.err # "nil" THEN d ELSE deleteEach(d.buf, parentAttr, name, j + 1, n)

\* a masker that refuses a directive that names no registered function
RECURSIVE maskFrom_unknownFails(_, _, _, _, _)
maskFrom_unknownFails(buf, parentAttr, r, isSlice, i) ==
    IF i > Len(r) THEN [buf |-> buf, err |-> "nil"]
    ELSE LET f == r[i]
             attr == IF isSlice THEN parentAttr \o <<Hash, Key(f.name)>> ELSE <<Key(f.name)>>
             n == GetBytes(buf, parentAttr \o <<Hash>>)
             step == IF Len(f.child) > 0 THEN maskFrom_unknownFails(buf, attr, f.child, TRUE, 1)
                     ELSE IF f.tag = "" THEN [buf |-> buf, err |-> "nil"]
                     ELSE IF f.tag = "-"
                     THEN IF ~isSlice THEN DeleteBytes(buf, attr)
                          ELSE IF ~n.exists THEN [buf |-> buf, err |-> "nil"]
                          ELSE deleteEach(buf, parentAttr, f.name, 0, ResultInt(n))
                     ELSE IF f.tag \notin RegisteredFuncs
                     THEN [buf |-> buf, err |-> "unknown masking function"]
                     ELSE [buf |-> SetBytes(buf, attr, Masked), err |-> "nil"]
         IN  IF step.err # "nil" THEN step
             ELSE maskFrom_unknownFails(step.buf, parentAttr, r, isSlice, i + 1)

\* a masker that takes the empty directive for "-"
RECURSIVE maskFrom_emptyDeletes(_, _, _, _, _)
maskFrom_emptyDeletes(buf, parentAttr, r, isSlice, i) ==
    IF i > Len(r) THEN [buf |-> buf, err |-> "nil"]
    ELSE LET f == r[i]
             attr == IF isSlice THEN parentAttr \o <<Hash, Key(f.name)>> ELSE <<Key(f.name)>>
             n == GetBytes(buf, parentAttr \o <<Hash>>)
             step == IF Len(f.child) > 0 THEN maskFrom_emptyDeletes(buf, attr, f.child, TRUE, 1)
                     ELSE IF f.tag \in {"", "-"}
                     THEN IF ~isSlice THEN DeleteBytes(buf, attr)
                          ELSE IF ~n.exists THEN [buf |-> buf, err |-> "nil"]
                          ELSE deleteEach(buf, parentAttr, f.name, 0, ResultInt(n))
                     ELSE IF f.tag \notin RegisteredFuncs THEN [buf |-> buf, err |-> "nil"]
                     ELSE [buf |-> SetBytes(buf, attr, Masked), err |-> "nil"]
         IN  IF step.err # "nil" THEN step
             ELSE maskFrom_emptyDeletes(step.buf, parentAttr, r, isSlice, i + 1)

\* RawJsonMask.mask, the loop over the fields from index i on
RECURSIVE maskFrom(_, _, _, _, _)
maskFrom(buf, parentAttr, r, isSlice, i) ==
    IF i > Len(r) THEN [buf |-> buf, err |-> "nil"]
    ELSE LET f == r[i]
             attr == IF isSlice THEN parentAttr \o <<Hash, Key(f.name)>> ELSE <<Key(f.name)>>
             n == GetBytes(buf, parentAttr \o <<Hash>>)
             step == IF Len(f.child) > 0 THEN maskFrom(buf, attr, f.child, TRUE, 1)
                     ELSE IF f.tag = "" THEN [buf |-> buf, err |-> "nil"]
                     ELSE IF f.tag = "-"
                     THEN IF ~isSlice THEN DeleteBytes(buf, attr)
                          ELSE IF ~n.exists THEN [buf |-> buf, err |-> "nil"]
                          ELSE deleteEach(buf, parentAttr, f.name, 0, ResultInt(n))
                     ELSE IF f.tag \notin RegisteredFuncs THEN [buf |-> buf, err |-> "nil"]
                     ELSE [buf |-> SetBytes(buf, attr, Masked), err |-> "nil"]
         IN  IF step.err # "nil" THEN step
             ELSE maskFrom(step.buf, parentAttr, r, isSlice, i + 1)

\* RawJsonMask.mask
mask(buf, parentAttr, r, isSlice) == maskFrom(buf, parentAttr, r, isSlice, 1)

\* the documents: {"id": 7, "emails": [...]}, each element of emails with an
\* "email", with or without a "typeId" and with or without "phones", an array
\* of objects with a "kind" and possibly a "num"
Phone1 == JObj([k \in {"num", "kind"} |-> IF k = "num" THEN JStr("555") ELSE JStr("home")])

Phone2 == JObj([k \in {"kind"} |-> JStr("work")])

PhoneLists == {<<>>, <<Phone1>>, <<Phone2, Phone1>>}

Elements ==
    { JObj([k \in {"email"} |-> JStr("a@b")]),
      JObj([k \in {"email", "typeId"} |-> IF k = "email" THEN JStr("c@d") ELSE JNum(1)]) }
    \cup { JObj([k \in {"email", "typeId", "phones"} |->
                  IF k = "email" THEN JStr("e@f") ELSE IF k = "typeId" THEN JNum(2)
                  ELSE JArr(l)]) : l \in PhoneLists }

RECURSIVE SeqsUpTo(_, _)
SeqsUpTo(S, n) ==
    IF n = 0 THEN {<<>>}
    ELSE LET shorter == SeqsUpTo(S, n - 1)
         IN  shorter \cup {Append(q, x) : q \in shorter, x \in S}

Documents ==
    { JObj([k \in {"id"} |-> JNum(7)]) }
    \cup { JObj([k \in {"id", "emails"} |-> IF k = "id" THEN JNum(7) ELSE JArr(a)]) :
             a \in SeqsUpTo(Elements, MaxElems) }

\* the field trees Fields returns for a structure with an id and a slice
\* "emails" of structures with an email, a typeId and a slice "phones" of
\* structures with a num and a kind, for the mask tags the fields may carry
FieldTrees ==
    { << Field("id", it, <<>>),
         Field("emails", "",
               << Field("email", et, <<>>),
                  Field("typeId", tt, <<>>),
                  Field("phones", "", << Field("num", nt, <<>>), Field("kind", "", <<>>) >>) >>) >> :
        it \in {"", "phone"}, et \in {"", "email", "phone"}, tt \in {"", "-"}, nt \in {"", "-"} }

\* no masking in progress
IdleMasking ==
    [pc |-> "idle", src |-> JNum(0), fields |-> <<>>, dst |-> JNum(0), err |-> "nil",
     again |-> JNum(0)]

(* ------------------- strconv, date and the decoders -------------------- *)

Pow2(w) == 2 ^ w

IsDigit(c) == c >= 48 /\ c <= 57

RECURSIVE digitsValue(_, _)
digitsValue(s, acc) ==
    IF s = <<>> THEN acc ELSE digitsValue(Tail(s), acc * 10 + (Head(s) - 48))

\* the result of a strconv parser: the value and the text of the error
Parsed(v) == [v |-> v, err |-> "nil"]
ErrSyntax(zero) == [v |-> zero, err |-> "invalid syntax"]
ErrRange(v) == [v |-> v, err |-> "value out of range"]

\* strconv.ParseUint(s, 10, bitSize): decimal digits only, no sign; the values
\* of the model have few digits, so that a 32- or 64-bit range is never left
ParseUint(s, bitSize) ==
    IF s = <<>> \/ (\E i \in DOMAIN s : ~IsDigit(s[i])) THEN ErrSyntax(0)
    ELSE IF bitSize < 31 /\ digitsValue(s, 0) >= Pow2(bitSize)
    THEN ErrRange(Pow2(bitSize) - 1)
    ELSE Parsed(digitsValue(s, 0))

\* strconv.ParseInt(s, 10, bitSize): an optional sign and decimal digits
ParseInt(s, bitSize) ==
    IF s = <<>> THEN ErrSyntax(0)
    ELSE LET neg == s[1] = 45
             rest == IF s[1] \in {43, 45} THEN Tail(s) ELSE s
             un == ParseUint(rest, 64)
         IN  IF un.err # "nil" THEN [un EXCEPT !.v = 0]
             ELSE IF bitSize < 32 /\ ~neg /\ un.v >= Pow2(bitSize - 1)
             THEN ErrRange(Pow2(bitSize - 1) - 1)
             ELSE IF bitSize < 32 /\ neg /\ un.v > Pow2(bitSize - 1)
             THEN ErrRange(0 - Pow2(bitSize - 1))
             ELSE Parsed(IF neg THEN 0 - un.v ELSE un.v)

\* strconv.ParseBool: "1", "t", "T", "TRUE", "true", "True" and "0", "f", "F",
\* "FALSE", "false", "False"
ParseBool(s) ==
    IF s \in { <<49>>, <<116>>, <<84>>, <<84, 82, 85, 69>>, <<116, 114, 117, 101>>,
               <<84, 114, 117, 101>> }
    THEN Parsed(TRUE)
    ELSE IF s \in { <<48>>, <<102>>, <<70>>, <<70, 65, 76, 83, 69>>,
                    <<102, 97, 108, 115, 101>>, <<70, 97, 108, 115, 101>> }
    THEN Parsed(FALSE)
    ELSE ErrSyntax(FALSE)

\* a floating-point number: the float of the given size nearest to m * 10^e,
\* with m not divisible by 10 (m = 0 has e = 0)
RECURSIVE Float(_, _, _)
Float(m, e, bits) ==
    IF m = 0 THEN [m |-> 0, e |-> 0, bits |-> bits]
    ELSE IF m % 10 = 0 THEN Float(m \div 10, e + 1, bits)
    ELSE [m |-> m, e |-> e, bits |-> bits]

\* the scan of a decimal floating-point text: the sign, the digits of the
\* mantissa (nd of them, fd after the point), and the exponent with its sign
\* and its ed digits; st is what the scan expects next
FloatScan ==
    [ok |-> TRUE, neg |-> FALSE, mant |-> 0, nd |-> 0, fd |-> 0, eneg |-> FALSE, ex |-> 0,
     ed |-> 0]

RECURSIVE scanFloat(_, _, _)
scanFloat(s, st, acc) ==
    IF s = <<>>
    THEN [acc EXCEPT !.ok = acc.nd > 0 /\ (st \in {"int", "frac"} \/ (st = "exp" /\ acc.ed > 0))]
    ELSE LET c == Head(s)
         IN  IF st = "sign"
             THEN IF c \in {43, 45} THEN scanFloat(Tail(s), "int", [acc EXCEPT !.neg = c = 45])
                  ELSE scanFloat(s, "int", acc)
             ELSE IF st \in {"int", "frac"} /\ IsDigit(c)
             THEN scanFloat(Tail(s), st,
                            [acc EXCEPT !.mant = @ * 10 + (c - 48), !.nd = @ + 1,
                                        !.fd = IF st = "frac" THEN @ + 1 ELSE @])
             ELSE IF st = "int" /\ c = 46 THEN scanFloat(Tail(s), "frac", acc)
             ELSE IF st \in {"int", "frac"} /\ c \in {101, 69}
             THEN scanFloat(Tail(s), "expsign", acc)
             ELSE IF st = "expsign"
             THEN IF c \in {43, 45} THEN scanFloat(Tail(s), "exp", [acc EXCEPT !.eneg = c = 45])
                  ELSE scanFloat(s, "exp", acc)
             ELSE IF st = "exp" /\ IsDigit(c)
             THEN scanFloat(Tail(s), "exp", [acc EXCEPT !.ex = @ * 10 + (c - 48), !.ed = @ + 1])
             ELSE [acc EXCEPT !.ok = FALSE]

\* strconv.ParseFloat(s, bitSize) on decimal notation: sign, digits, point,
\* digits, and an exponent "e" or "E" with its sign and digits; the values of
\* the model are not written in hexadecimal and are neither infinities nor NaN
ParseFloat(s, bitSize) ==
    LET r == scanFloat(s, "sign", FloatScan)
    IN  IF ~r.ok THEN ErrSyntax(Float(0, 0, bitSize))
        ELSE Parsed(Float(IF r.neg THEN 0 - r.mant ELSE r.mant,
                          (IF r.eneg THEN 0 - r.ex ELSE r.ex) - r.fd, bitSize))

\* reflect.Value.SetInt and SetUint on a field of w bits: the conversion of
\* the 64-bit value to the type of the field keeps the low w bits
SetInt(x, w) == IF w >= 32 THEN x ELSE ((x + Pow2(w - 1)) % Pow2(w)) - Pow2(w - 1)
SetUint(x, w) == IF w >= 32 THEN x ELSE x % Pow2(w)

\* reflect.Value.SetFloat on a field of w bits
SetFloat(f, w) == [f EXCEPT !.bits = IF w < f.bits THEN w ELSE f.bits]

\* b[i] - '0' on bytes
ByteSub0(b) == (b - 48) % 256

\* date.dec2hex, date.dec2hexy: two and four decimal digits as hexadecimal ones
dec2hex(i) == (i \div 10) * 16 + (i % 10)
dec2hexy(i) ==
    (i \div 1000) * 4096 + ((i % 1000) \div 100) * 256 + ((i % 100) \div 10) * 16 + (i % 10)

\* date.newDate: 0xYYYYMMDD
newDate(y, m, d) == dec2hexy(y) * 65536 + dec2hex(m) * 256 + dec2hex(d)

\* Date.Year, Date.Month, Date.Day
Year(d) ==
    (d \div Pow2(28)) * 1000 + ((d \div Pow2(24)) % 16) * 100
    + ((d \div Pow2(20)) % 16) * 10 + ((d \div Pow2(16)) % 16)
Month(d) == (((d \div 256) % 256) \div 16) * 10 + (((d \div 256) % 256) % 16)
Day(d) == ((d % 256) \div 16) * 10 + ((d % 256) % 16)

\* the days of a month, as time.Date normalizes them
DaysIn(y, m) ==
    IF m = 2 THEN (IF y % 4 = 0 /\ (y % 100 # 0 \/ y % 400 = 0) THEN 29 ELSE 28)
    ELSE IF m \in {4, 6, 9, 11} THEN 30 ELSE 31

\* date.parseYYYYMMDD: the digits are taken by position, the separators are
\* not looked at, and the date must be one of the calendar
parseYYYYMMDD(b) ==
    IF Len(b) < 10 THEN [v |-> 0, err |-> "input date length less then 10 bytes"]
    ELSE LET y == ByteSub0(b[1]) * 1000 + ByteSub0(b[2]) * 100 + ByteSub0(b[3]) * 10
                  + ByteSub0(b[4])
             m == ByteSub0(b[6]) * 10 + ByteSub0(b[7])
             d == ByteSub0(b[9]) * 10 + ByteSub0(b[10])
         IN  IF y > 9999 \/ m > 12 \/ d > 31 THEN [v |-> 0, err |-> "date parse errror"]
             ELSE IF m < 1 \/ d < 1 \/ d > DaysIn(y, m)
             THEN [v |-> 0, err |-> "date parse errror"]
             ELSE Parsed(newDate(y, m, d))

\* date.Parse: the first byte is looked at before the length is, which
\* panics on an empty string
dateParse(s) ==
    IF s = <<>> THEN [v |-> 0, err |-> "nil", panic |-> TRUE]
    ELSE LET t == parseYYYYMMDD(IF s[1] = 34 THEN Tail(s) ELSE s)
         IN  IF t.err # "nil" THEN [v |-> 0, err |-> t.err, panic |-> FALSE]
             ELSE [v |-> newDate(Year(t.v), Month(t.v), Day(t.v)), err |-> "nil",
                   panic |-> FALSE]

\* reflect.Kind of the types of the model, and the bits of the numeric ones
\* (int and uint have 64); date.Date is a uint32
KindOf(type) ==
    IF type \in {"int", "int8", "int16"} THEN "Int"
    ELSE IF type \in {"uint", "uint8", "date.Date"} THEN "Uint"
    ELSE IF type = "string" THEN "String"
    ELSE IF type = "bool" THEN "Bool"
    ELSE IF type = "float64" THEN "Float64"
    ELSE IF type = "float32" THEN "Float32"
    ELSE IF type = "[]string" THEN "Slice"
    ELSE "Struct"

BitsOf(type) ==
    IF type \in {"int8", "uint8"} THEN 8
    ELSE IF type = "int16" THEN 16
    ELSE IF type \in {"float32", "date.Date"} THEN 32
    ELSE 64

\* the zero value of a type
Zero(type) ==
    IF KindOf(type) \in {"Int", "Uint"} THEN 0
    ELSE IF KindOf(type) = "Bool" THEN FALSE
    ELSE IF KindOf(type) \in {"Float64", "Float32"} THEN Float(0, 0, BitsOf(type))
    ELSE <<>>

\* a field of a structure: its type (for a pointer field the type pointed
\* to), whether it is exported and so settable, its param tag, whether a
\* pointer field is nil, its value, and the fields of a structure
Fld(name, type, tag) ==
    [name |-> name, type |-> type, ptr |-> FALSE, exported |-> TRUE, tag |-> tag,
     isNil |-> FALSE, val |-> Zero(type), sub |-> <<>>]

PtrFld(name, type, tag) == [Fld(name, type, tag) EXCEPT !.ptr = TRUE, !.isNil = TRUE]

StructFld(name, tag, sub) == [Fld(name, "struct", tag) EXCEPT !.sub = sub]

\* reflect.Type.Name of the type of a field: a pointer type has no name
TypeName(f) == IF f.ptr THEN "" ELSE IF f.type = "date.Date" THEN "Date" ELSE f.type

\* a value of the query string or of the path: absent, or a string
NoValue == [present |-> FALSE, val |-> <<>>]
Value(s) == [present |-> TRUE, val |-> s]

\* the result of a decoder: the structure, the error, whether it panicked
Decoded(s, err, panic) == [s |-> s, err |-> err, panic |-> panic]

\* a strconv or date error as the error value it is
PlainErr(msg) == RtErr("plain", 0, msg, "")

\* the switch on the kind of a query field (vatel.go:1196-1231): the field
\* with the value assigned, and the error
assignByKind(f, val) ==
    LET kind == KindOf(f.type)
        w == BitsOf(f.type)
        i == ParseInt(val, 64)
        u == ParseUint(val, 64)
        x == ParseFloat(val, IF kind = "Float32" THEN 32 ELSE 64)
        b == ParseBool(val)
    IN  IF kind = "Int"
        THEN IF i.err # "nil" THEN [f |-> f, err |-> PlainErr(i.err)]
             ELSE [f |-> [f EXCEPT !.val = SetInt(i.v, w)], err |-> NilErr]
        ELSE IF kind = "Uint"
        THEN IF u.err # "nil" THEN [f |-> f, err |-> PlainErr(u.err)]
             ELSE [f |-> [f EXCEPT !.val = SetUint(u.v, w)], err |-> NilErr]
        ELSE IF kind = "String" THEN [f |-> [f EXCEPT !.val = val], err |-> NilErr]
        ELSE IF kind \in {"Float64", "Float32"}
        THEN IF x.err # "nil" THEN [f |-> f, err |-> PlainErr(x.err)]
             ELSE [f |-> [f EXCEPT !.val = SetFloat(x.v, w)], err |-> NilErr]
        ELSE IF kind = "Bool"
        THEN IF b.err # "nil" THEN [f |-> f, err |-> PlainErr(b.err)]
             ELSE [f |-> [f EXCEPT !.val = b.v], err |-> NilErr]
        ELSE [f |-> f, err |-> ValidationFailed("unsupported type")]

\* a decoder that allocates a pointer field before it looks for its key
RECURSIVE decodeURLQueryFrom_eagerAlloc(_, _, _)
decodeURLQueryFrom_eagerAlloc(s, q, i) ==
    IF i > Len(s) THEN Decoded(s, NilErr, FALSE)
    ELSE LET f == s[i]
             inner == decodeURLQueryFrom_eagerAlloc(f.sub, q, 1)
             val == q[f.tag].val
             sf == [f EXCEPT !.isNil = FALSE]
             d == dateParse(val)
             a == assignByKind(sf, val)
         IN  IF ~f.exported THEN decodeURLQueryFrom_eagerAlloc(s, q, i + 1)
             ELSE IF ~f.ptr /\ KindOf(f.type) = "Struct"
             THEN IF inner.panic \/ inner.err # NilErr
                  THEN Decoded([s EXCEPT ![i].sub = inner.s], inner.err, inner.panic)
                  ELSE decodeURLQueryFrom_eagerAlloc([s EXCEPT ![i].sub = inner.s], q, i + 1)
             ELSE IF f.tag = "" THEN decodeURLQueryFrom_eagerAlloc(s, q, i + 1)
             ELSE IF ~q[f.tag].present
             THEN decodeURLQueryFrom_eagerAlloc([s EXCEPT ![i] = sf], q, i + 1)
             ELSE IF TypeName(f) = "Date"
             THEN IF d.panic THEN Decoded(s, NilErr, TRUE)
                  ELSE IF d.err # "nil" THEN Decoded(s, PlainErr(d.err), FALSE)
                  ELSE decodeURLQueryFrom_eagerAlloc([s EXCEPT ![i].val = SetUint(d.v, 32)], q, i + 1)
             ELSE IF a.err # NilErr THEN Decoded([s EXCEPT ![i] = a.f], a.err, FALSE)
             ELSE decodeURLQueryFrom_eagerAlloc([s EXCEPT ![i] = a.f], q, i + 1)

\* decodeURLQuery, the loop over the fields of s from index i on, with the
\* query arguments q
RECURSIVE decodeURLQueryFrom(_, _, _)
decodeURLQueryFrom(s, q, i) ==
    IF i > Len(s) THEN Decoded(s, NilErr, FALSE)
    ELSE LET f == s[i]
             inner == decodeURLQueryFrom(f.sub, q, 1)
             val == q[f.tag].val
             sf == [f EXCEPT !.isNil = FALSE]
             d == dateParse(val)
             a == assignByKind(sf, val)
         IN  IF ~f.exported THEN decodeURLQueryFrom(s, q, i + 1)
             ELSE IF ~f.ptr /\ KindOf(f.type) = "Struct"
             THEN IF inner.panic \/ inner.err # NilErr
                  THEN Decoded([s EXCEPT ![i].sub = inner.s], inner.err, inner.panic)
                  ELSE decodeURLQueryFrom([s EXCEPT ![i].sub = inner.s], q, i + 1)
             ELSE IF f.tag = "" THEN decodeURLQueryFrom(s, q, i + 1)
             ELSE IF ~q[f.tag].present THEN decodeURLQueryFrom(s, q, i + 1)
             ELSE IF TypeName(f) = "Date"
             THEN IF d.panic THEN Decoded(s, NilErr, TRUE)
                  ELSE IF d.err # "nil" THEN Decoded(s, PlainErr(d.err), FALSE)
                  ELSE decodeURLQueryFrom([s EXCEPT ![i].val = SetUint(d.v, 32)], q, i + 1)
             ELSE IF a.err # NilErr THEN Decoded([s EXCEPT ![i] = a.f], a.err, FALSE)
             ELSE decodeURLQueryFrom([s EXCEPT ![i] = a.f], q, i + 1)

\* the type switch of a path field (vatel.go:1099-1130): the named types and
\* the pointers are none of its cases
assignByType(f, val) ==
    LET kind == KindOf(f.type)
        w == BitsOf(f.type)
        i == ParseInt(val, 64)
        u == ParseUint(val, 64)
        x == ParseFloat(val, 64)
        b == ParseBool(val)
    IN  IF f.ptr \/ f.type = "date.Date" \/ kind = "Struct"
        THEN [f |-> f, err |-> ValidationFailed("unsuppoted go type")]
        ELSE IF kind = "Int"
        THEN IF i.err # "nil" THEN [f |-> f, err |-> ValidationFailed(i.err)]
             ELSE [f |-> [f EXCEPT !.val = SetInt(i.v, w)], err |-> NilErr]
        ELSE IF kind = "Uint"
        THEN IF u.err # "nil" THEN [f |-> f, err |-> ValidationFailed(u.err)]
             ELSE [f |-> [f EXCEPT !.val = SetUint(u.v, w)], err |-> NilErr]
        ELSE IF kind = "String" THEN [f |-> [f EXCEPT !.val = val], err |-> NilErr]
        ELSE IF kind = "Bool"
        THEN IF b.err # "nil" THEN [f |-> f, err |-> ValidationFailed(b.err)]
             ELSE [f |-> [f EXCEPT !.val = b.v], err |-> NilErr]
        ELSE IF kind \in {"Float64", "Float32"}
        THEN IF x.err # "nil" THEN [f |-> f, err |-> ValidationFailed(x.err)]
             ELSE [f |-> [f EXCEPT !.val = SetFloat(x.v, w)], err |-> NilErr]
        ELSE [f |-> f, err |-> NilErr]

\* decodeParams, the loop over the fields of s from index i on, with the user
\* values uv of the context; a tag without a user value panics
RECURSIVE decodeParamsFrom(_, _, _)
decodeParamsFrom(s, uv, i) ==
    IF i > Len(s) THEN Decoded(s, NilErr, FALSE)
    ELSE LET f == s[i]
             a == assignByType(f, uv[f.tag].val)
         IN  IF ~f.exported \/ f.tag = "" THEN decodeParamsFrom(s, uv, i + 1)
             ELSE IF ~uv[f.tag].present THEN Decoded(s, NilErr, TRUE)
             ELSE IF a.err # NilErr THEN Decoded(s, a.err, FALSE)
             ELSE decodeParamsFrom([s EXCEPT ![i] = a.f], uv, i + 1)

\* how deep the structures of a destination are nested
MaxDepth == 2

\* the values of the model: "1", "-7", "300", "true", "0.5", "2021-09-01",
\* "2021-02-30", "20210901" and the empty string
V_1 == <<49>>
V_minus7 == <<45, 55>>
V_300 == <<51, 48, 48>>
V_true == <<116, 114, 117, 101>>
V_0_5 == <<48, 46, 53>>
V_2021_09_01 == <<50, 48, 50, 49, 45, 48, 57, 45, 48, 49>>
V_2021_02_30 == <<50, 48, 50, 49, 45, 48, 50, 45, 51, 48>>
V_20210901 == <<50, 48, 50, 49, 48, 57, 48, 49>>

WireValues ==
    {NoValue} \cup { Value(s) : s \in { V_1, V_minus7, V_300, V_true, V_0_5, V_2021_09_01,
                                        V_2021_02_30, V_20210901, <<>> } }

\* the keys of the query string and the names of the path placeholders
WireKeys == {"id", "deletedOnly", "day", "g"}

\* struct{ G float64 `param:"g"`; N int `param:"id"`; Sub struct{...} }, nested
\* d deep
RECURSIVE Nested(_)
Nested(d) ==
    << Fld("G", "float64", "g"), Fld("N", "int", "id") >>
    \o (IF d > 1 THEN << StructFld("Sub", "", Nested(d - 1)) >> ELSE <<>>)

\* the destinations of decodeURLQuery: the structure of TestDecodeURLQuery
\* with an untagged and an unexported field; one of narrow and of pointer
\* fields; one with a pointer to a date; one with a slice
QueryDestinations ==
    { << Fld("ID", "int", "id"), Fld("DeletedOnly", "bool", "deletedOnly"),
         Fld("Day", "date.Date", "day"), StructFld("BB", "", Nested(MaxDepth)),
         Fld("Note", "string", ""), [Fld("hidden", "int", "id") EXCEPT !.exported = FALSE] >>,
      << Fld("Small", "int8", "id"), Fld("Count", "uint8", "id"), PtrFld("Limit", "int", "id"),
         Fld("Ratio", "float32", "g"), Fld("Label", "string", "g"),
         PtrFld("Only", "bool", "deletedOnly") >>,
      << Fld("ID", "int", "id"), PtrFld("Day", "date.Date", "day"),
         StructFld("BB", "", Nested(1)) >>,
      << Fld("ID", "int16", "id"), Fld("Tags", "[]string", "g"), Fld("Day", "date.Date", "day") >> }

\* the destinations of decodeParams
ParamDestinations ==
    { << Fld("ID", "int", "id"), Fld("Small", "int8", "id"), Fld("Flag", "bool", "deletedOnly"),
         Fld("Ratio", "float32", "g"), Fld("Note", "string", "") >>,
      << Fld("Count", "uint8", "id"), Fld("Label", "string", "g"), Fld("Tags", "[]string", "g"),
         Fld("Day", "date.Date", "day") >> }

\* the param tags of the fields of a structure and of the structures in it
RECURSIVE TagsOf(_)
TagsOf(s) ==
    UNION { IF s[i].type = "struct" THEN TagsOf(s[i].sub) ELSE {s[i].tag} : i \in DOMAIN s }

\* the values of the keys, for the keys a destination names
WiresFor(s) ==
    { w \in [WireKeys -> WireValues] : \A k \in WireKeys \ TagsOf(s) : w[k] = NoValue }

\* no decoding in progress
IdleDecoding ==
    [pc |-> "idle", via |-> "none", into |-> <<>>, wire |-> [k \in WireKeys |-> NoValue],
     out |-> <<>>, err |-> NilErr]

(* ------------------ contexts and controller instances ------------------ *)

\* number of requests that are dispatched at the same time
MaxRequests == 2

\* NewContext: a new VatelContext for the fasthttp context fh of a request,
\* without token payload; the heap with it and the reference to it
NewContext(heap, fh) ==
    [heap |-> Append(heap, [fh |-> fh, tp |-> NoToken]), ref |-> Len(heap) + 1]

\* struct{ ID int `param:"id"` }, what Param() of a controller points to
ParamStruct == << Fld("ID", "int", "id") >>

\* a factory that hands out one controller to every request
Controller_singleton(heap) ==
    IF heap = <<>> THEN [heap |-> <<[param |-> ParamStruct]>>, ref |-> 1]
    ELSE [heap |-> heap, ref |-> 1]

\* e.Controller(): the factory of the endpoint returns a new controller, as
\* the factory of the table of contents does; the heap with it and the
\* reference to it
Controller(heap) ==
    [heap |-> Append(heap, [param |-> ParamStruct]), ref |-> Len(heap) + 1]

\* the path values of the requests: id=1 and id=300
PathValues ==
    { [k \in WireKeys |-> IF k = "id" THEN Value(v) ELSE NoValue] : v \in {V_1, V_300} }

\* the answers of the collaborators to the credentials of the requests: the
\* credential is not revoked and decodes to one of the identities
Credentials ==
    { in \in AuthInputs : in.rtc.res = "ok" /\ in.dec.res = "ok"
                          /\ in.allow.res \in {"true", "false"} }

\* a request the router has not handed to the handler
IdleFlight ==
    [pc |-> "idle", ctx |-> 0, h |-> 0, uv |-> [k \in WireKeys |-> NoValue],
     token |-> NoToken, seenTp |-> NoToken, seenParam |-> <<>>, failed |-> FALSE]

\* no request in flight: the contexts and the controllers allocated, the
\* endpoint the requests are routed to, and the requests
IdleServing ==
    [ctxs |-> <<>>, ctls |-> <<>>, e |-> 0, rq |-> [r \in 1..MaxRequests |-> IdleFlight]]

(* ------------------------------- state --------------------------------- *)

Init ==
    /\ cfg \in Options
    /\ ep = <<TocEndpoint>>
    /\ auth = FALSE /\ td = FALSE /\ pm = FALSE /\ rtc = FALSE
    /\ authDisabled = FALSE
    /\ mdw = [p \in MiddlewarePos |-> <<>>]
    /\ mux = <<>>
    /\ built = [result |-> "none", err |-> NoError, via |-> "none", passes |-> 0]
    /\ req = IdleReq
    /\ masking = IdleMasking
    /\ decoding = IdleDecoding
    /\ serving = IdleServing

setupVars == <<ep, auth, td, pm, rtc, authDisabled, mdw, cfg, mux, built, masking, decoding, serving>>

mdwCount == Len(mdw["BeforeAuthorization"]) + Len(mdw["AfterAuthorization"])
            + Len(mdw["OnSuccessResponse"])

(* --------------------------- setup actions ----------------------------- *)

SetAuthorizer ==
    /\ built.result = "none"
    /\ auth' = TRUE
    /\ UNCHANGED <<ep, td, pm, rtc, authDisabled, mdw, cfg, mux, built, req, masking, decoding, serving>>

SetTokenDecoder ==
    /\ built.result = "none"
    /\ td' = TRUE
    /\ UNCHANGED <<ep, auth, pm, rtc, authDisabled, mdw, cfg, mux, built, req, masking, decoding, serving>>

SetPermissionManager ==
    /\ built.result = "none"
    /\ pm' = TRUE
    /\ UNCHANGED <<ep, auth, td, rtc, authDisabled, mdw, cfg, mux, built, req, masking, decoding, serving>>

SetRevokeTokenChecker ==
    /\ built.result = "none"
    /\ rtc' = TRUE
    /\ UNCHANGED <<ep, auth, td, pm, authDisabled, mdw, cfg, mux, built, req, masking, decoding, serving>>

DisableAuthorizer ==
    /\ built.result = "none"
    /\ authDisabled' = TRUE
    /\ UNCHANGED <<ep, auth, td, pm, rtc, mdw, cfg, mux, built, req, masking, decoding, serving>>

Add ==
    /\ built.result = "none"
    /\ Len(ep) < 1 + MaxEndpoints
    /\ \E d \in Declarations : ep' = Append(ep, d)
    /\ UNCHANGED <<auth, td, pm, rtc, authDisabled, mdw, cfg, mux, built, req, masking, decoding, serving>>

AddMiddleware ==
    /\ built.result = "none"
    /\ mdwCount < MaxMdw
    /\ \E pos \in MiddlewarePos : mdw' = [mdw EXCEPT ![pos] = Append(@, mdwCount + 1)]
    /\ UNCHANGED <<ep, auth, td, pm, rtc, authDisabled, cfg, mux, built, req, masking, decoding, serving>>

BuildHandlers ==
    /\ built.result = "none"
    /\ LET r == buildHandlers(ep, mux, Registry)
       IN  /\ ep' = r.ep
           /\ mux' = r.mux
           /\ built' = [result |-> r.result, err |-> r.err, via |-> "BuildHandlers",
                        passes |-> built.passes + 1]
    /\ UNCHANGED <<auth, td, pm, rtc, authDisabled, mdw, cfg, req, masking, decoding, serving>>

(* -------------------------- request actions ---------------------------- *)

\* the endpoint whose handler serves the request
E == ep[req.e]

\* the router calls the handler registered for a route: the handler reads
\* the log options and creates the context (handler, up to NewContext)
\* a handler that resets the log options of the endpoint it serves
Start_writesLogOptions ==
    /\ built.result = "ok"
    /\ req.pc \in {"idle", "done"}
    /\ \E k \in 1..Len(mux) :
          /\ req' = [IdleReq EXCEPT !.pc = "before", !.e = mux[k].e,
                                    !.verbose = ep[mux[k].e].verboseError,
                                    !.lo = ep[mux[k].e].LogOptions,
                                    !.loReads = <<IF ep[mux[k].e].staticLoggingLevel
                                                  THEN "plain" ELSE "atomic">>]
          /\ ep' = [ep EXCEPT ![mux[k].e].LogOptions = LogSilent]
    /\ UNCHANGED <<auth, td, pm, rtc, authDisabled, mdw, cfg, mux, built, masking, decoding, serving>>

\* the start of the handler: the log options are read with an atomic load when
\* the logging level is not static, and as a plain field otherwise
Start ==
    /\ built.result = "ok"
    /\ req.pc \in {"idle", "done"}
    /\ \E k \in 1..Len(mux) :
          req' = [IdleReq EXCEPT !.pc = "before", !.e = mux[k].e,
                                 !.verbose = ep[mux[k].e].verboseError,
                                 !.lo = ep[mux[k].e].LogOptions,
                                 !.loReads = <<IF ep[mux[k].e].staticLoggingLevel
                                               THEN "plain" ELSE "atomic">>]
    /\ UNCHANGED setupVars

\* the loop over the before-authorization middlewares
BeforeAuthorization ==
    /\ req.pc = "before"
    /\ LET list == E.middlewares["BeforeAuthorization"]
       IN  \E k \in 0..Len(list) : \E x \in AppErrors :
              LET r == [req EXCEPT !.trace = @ \o mwCalls("BeforeAuthorization", list, k)]
              IN  req' = IF k = 0 THEN [r EXCEPT !.pc = nextStage(req.pc)]
                         ELSE writeErrorResponse(E, r, x)
    /\ UNCHANGED setupVars

\* the authorization block of the handler
Authorize ==
    /\ req.pc = "auth"
    /\ IF authRequired(E)
       THEN \E in \in AuthInputs :
              LET a == authorize(E, in)
                  r == [req EXCEPT !.trace = @ \o <<Ev("authorize", 0)>> \o a.calls,
                                   !.hdr = a.hdr, !.revoked = a.revoked,
                                   !.decoded = a.decoded, !.allowed = a.allowed,
                                   !.token = a.decodedToken]
              IN  req' = IF a.panic THEN [r EXCEPT !.pc = "panic"]
                         ELSE IF a.err # NilErr THEN writeErrorResponse(E, r, a.err)
                         ELSE [r EXCEPT !.pc = nextStage(req.pc), !.tp = a.token,
                                        !.verbose = @ \/ a.token.debug]
       ELSE req' = [req EXCEPT !.pc = nextStage(req.pc)]
    /\ UNCHANGED setupVars

\* the description escape hatch: with the description flag in the query,
\* handleDescription writes the description
Description ==
    /\ req.pc = "descr"
    /\ \E d \in BOOLEAN :
       req' = IF d
              THEN [req EXCEPT !.pc = "done", !.descr = TRUE,
                               !.ctype = "text/html; charset=utf-8",
                               !.body = Append(@, [kind |-> "description", message |-> "",
                                                   code |-> "", verbose |-> FALSE]),
                               !.trace = Append(@, Ev("handleDescription", 0))]
              ELSE [req EXCEPT !.pc = nextStage(req.pc)]
    /\ UNCHANGED setupVars

\* the call of initController
InitController ==
    /\ req.pc = "init"
    /\ \E in \in DecodeInputs :
          LET c == initController(E, in)
              r == [req EXCEPT !.trace = @ \o c.calls]
          IN  req' = IF c.panic THEN [r EXCEPT !.pc = "panic"]
                     ELSE IF c.err # NilErr THEN writeErrorResponse(E, r, c.err)
                     ELSE [r EXCEPT !.pc = nextStage(req.pc)]
    /\ UNCHANGED setupVars

\* the loop over the after-authorization middlewares
AfterAuthorization ==
    /\ req.pc = "after"
    /\ LET list == E.middlewares["AfterAuthorization"]
       IN  \E k \in 0..Len(list) : \E x \in AppErrors :
              LET r == [req EXCEPT !.trace = @ \o mwCalls("AfterAuthorization", list, k)]
              IN  req' = IF k = 0 THEN [r EXCEPT !.pc = nextStage(req.pc)]
                         ELSE writeErrorResponse(E, r, x)
    /\ UNCHANGED setupVars

\* the "new request" log line and the call of the controller's Handle
Handle ==
    /\ req.pc = "handle"
    /\ LET r == [req EXCEPT !.trace = @ \o (IF HasBit(req.lo, LogEnter)
                                              THEN <<Ev("log enter", 0)>> ELSE <<>>)
                                          \o <<Ev("Handle", 0)>>]
       IN  \/ req' = [r EXCEPT !.pc = nextStage(req.pc)]
           \/ \E x \in AppErrors : req' = writeErrorResponse(E, r, x)
    /\ UNCHANGED setupVars

\* the call of writeResponse when the controller produces a result
WriteResponse ==
    /\ req.pc = "write"
    /\ IF E.hasRespBody
       THEN LET r == [req EXCEPT !.trace = Append(@, Ev("writeResponse", 0))]
            IN  \/ req' = [r EXCEPT !.pc = nextStage(req.pc),
                                    !.ctype = "application/json; charset=utf-8",
                                    !.body = IF writesBody(E, req.lo)
                                             THEN Append(@, [kind |-> "result", message |-> "",
                                                             code |-> "", verbose |-> FALSE])
                                             ELSE @]
                \/ req' = writeErrorResponse(E, r, RtErr("plain", 0, "json: unsupported type", ""))
       ELSE req' = [req EXCEPT !.pc = nextStage(req.pc)]
    /\ UNCHANGED setupVars

\* the completion log line and the metric report with status 200; with
\* LogExit set the field LogOptions of the endpoint is read once more, as a
\* plain field, and the user value "message" is asserted to be a string
Complete ==
    /\ req.pc = "complete"
    /\ \E m \in MessageAttributes :
          req' = IF HasBit(req.lo, LogExit) /\ m = "nonstring"
                 THEN [req EXCEPT !.pc = "panic", !.loReads = Append(@, "plain")]
                 ELSE [req EXCEPT !.pc = nextStage(req.pc),
                                  !.loReads = IF HasBit(req.lo, LogExit)
                                              THEN Append(@, "plain") ELSE @,
                                  !.metrics = IF E.mr THEN Append(@, 200) ELSE @,
                                  !.trace = @ \o (IF HasBit(req.lo, LogExit)
                                                  THEN <<Ev("log exit", 0)>> ELSE <<>>)
                                              \o (IF E.mr THEN <<Ev("ReportMetric", 200)>>
                                                  ELSE <<>>)]
    /\ UNCHANGED setupVars

\* the loop over the on-success middlewares
OnSuccessResponse ==
    /\ req.pc = "success"
    /\ LET list == E.middlewares["OnSuccessResponse"]
       IN  \E k \in 0..Len(list) : \E x \in AppErrors :
              LET r == [req EXCEPT !.trace = @ \o mwCalls("OnSuccessResponse", list, k)]
              IN  req' = IF k = 0 THEN [r EXCEPT !.pc = nextStage(req.pc)]
                         ELSE writeErrorResponse(E, r, x)
    /\ UNCHANGED setupVars

Next ==
    \/ SetAuthorizer \/ SetTokenDecoder \/ SetPermissionManager
    \/ SetRevokeTokenChecker \/ DisableAuthorizer
    \/ Add \/ AddMiddleware \/ BuildHandlers
    \/ Start \/ BeforeAuthorization \/ Authorize \/ Description
    \/ InitController \/ AfterAuthorization \/ Handle \/ WriteResponse
    \/ Complete \/ OnSuccessResponse

Spec == Init /\ [][Next]_vars

(* ----------------------- the compile pass alone ------------------------ *)

\* the endpoints the application may declare when the compile pass is
\* examined alone
CompileDeclarations ==
    { Declare(GET, PathA, <<>>, Ctl(FALSE, TRUE, TRUE)),
      Declare(DELETE, PathA, <<>>, Ctl(FALSE, TRUE, FALSE)),
      Declare(post, PathA, <<>>, Ctl(FALSE, TRUE, FALSE)),
      Declare(PUT, PathA, <<>>, Ctl(FALSE, FALSE, TRUE)),
      Declare(PATCH, PathAId, <<>>, Ctl(TRUE, TRUE, TRUE)),
      Declare(TRACE, PathAId, <<>>, Ctl(TRUE, FALSE, FALSE)),
      Declare(GET, PathB, <<"orders:read">>, Ctl(FALSE, FALSE, TRUE)),
      Declare(DELETE, PathB, <<>>, Ctl(TRUE, FALSE, FALSE)),
      Declare(POST, PathB, <<>>, CtlList(FALSE, TRUE)) }

\* Vatel.Add with an endpoint of CompileDeclarations
AddDeclared ==
    /\ built.result = "none"
    /\ Len(ep) < 1 + MaxDeclared
    /\ \E d \in CompileDeclarations : ep' = Append(ep, d)
    /\ UNCHANGED <<auth, td, pm, rtc, authDisabled, mdw, cfg, mux, built, req, masking, decoding, serving>>

\* Vatel.MustBuildHandlers: an error of buildHandlers becomes a panic with
\* the text of the error
MustBuildHandlers ==
    /\ built.result = "none"
    /\ LET r == buildHandlers(ep, mux, Registry)
       IN  /\ ep' = r.ep
           /\ mux' = r.mux
           /\ built' = [result |-> IF r.result = "error" THEN "panic" ELSE r.result,
                        err |-> r.err, via |-> "MustBuildHandlers",
                        passes |-> built.passes + 1]
    /\ UNCHANGED <<auth, td, pm, rtc, authDisabled, mdw, cfg, req, masking, decoding, serving>>

NextCompile ==
    \/ SetAuthorizer \/ SetTokenDecoder \/ SetPermissionManager
    \/ SetRevokeTokenChecker \/ DisableAuthorizer
    \/ AddDeclared \/ BuildHandlers \/ MustBuildHandlers

SpecCompile == Init /\ [][NextCompile]_vars

(* --------------------------- the masker alone -------------------------- *)

\* a masker, a document and the field tree of the structure it serializes
InitMask ==
    /\ cfg \in {o \in Options : o.jm}
    /\ ep = <<TocEndpoint>>
    /\ auth = FALSE /\ td = FALSE /\ pm = FALSE /\ rtc = FALSE
    /\ authDisabled = FALSE
    /\ mdw = [p \in MiddlewarePos |-> <<>>]
    /\ mux = <<>>
    /\ built = [result |-> "none", err |-> NoError, via |-> "none", passes |-> 0]
    /\ req = IdleReq
    /\ \E d \in Documents : \E f \in FieldTrees :
          masking = [pc |-> "start", src |-> d, fields |-> f, dst |-> d, err |-> "nil",
                     again |-> JNum(0)]
    /\ decoding = IdleDecoding
    /\ serving = IdleServing

\* a Mask that rewrites the buffer it is given
Mask_inPlace ==
    /\ masking.pc = "start"
    /\ LET r == mask(masking.src, <<>>, masking.fields, FALSE)
       IN  masking' = [masking EXCEPT !.pc = "done", !.src = r.buf, !.dst = r.buf, !.err = r.err]
    /\ UNCHANGED <<ep, auth, td, pm, rtc, authDisabled, mdw, cfg, mux, built, req, decoding, serving>>

\* RawJsonMask.Mask: the fields are applied to a copy of the document, the
\* buffer dst, and src is not written
Mask ==
    /\ masking.pc = "start"
    /\ LET r == mask(masking.src, <<>>, masking.fields, FALSE)
       IN  masking' = [masking EXCEPT !.pc = "done", !.dst = r.buf, !.err = r.err]
    /\ UNCHANGED <<ep, auth, td, pm, rtc, authDisabled, mdw, cfg, mux, built, req, decoding, serving>>

\* Mask called again with the result of the first call
MaskAgain ==
    /\ masking.pc = "done" /\ masking.err = "nil"
    /\ LET r == mask(masking.dst, <<>>, masking.fields, FALSE)
       IN  masking' = [masking EXCEPT !.pc = "twice", !.again = r.buf, !.err = r.err]
    /\ UNCHANGED <<ep, auth, td, pm, rtc, authDisabled, mdw, cfg, mux, built, req, decoding, serving>>

NextMask == Mask \/ MaskAgain

SpecMask == InitMask /\ [][NextMask]_vars

(* -------------------------- the decoders alone ------------------------- *)

\* a destination structure with its fields at their zero values and the
\* values of a query string or of the path placeholders
InitDecode ==
    /\ cfg \in {o \in Options : ~o.jm /\ ~o.mr}
    /\ ep = <<TocEndpoint>>
    /\ auth = FALSE /\ td = FALSE /\ pm = FALSE /\ rtc = FALSE
    /\ authDisabled = FALSE
    /\ mdw = [p \in MiddlewarePos |-> <<>>]
    /\ mux = <<>>
    /\ built = [result |-> "none", err |-> NoError, via |-> "none", passes |-> 0]
    /\ req = IdleReq
    /\ masking = IdleMasking
    /\ serving = IdleServing
    /\ \/ \E s \in QueryDestinations : \E w \in WiresFor(s) :
             decoding = [IdleDecoding EXCEPT !.pc = "start", !.via = "query", !.into = s,
                                             !.wire = w, !.out = s]
       \/ \E s \in ParamDestinations : \E w \in WiresFor(s) :
             decoding = [IdleDecoding EXCEPT !.pc = "start", !.via = "path", !.into = s,
                                             !.wire = w, !.out = s]

\* decodeURLQuery on the destination
DecodeURLQuery ==
    /\ decoding.pc = "start" /\ decoding.via = "query"
    /\ LET r == decodeURLQueryFrom(decoding.into, decoding.wire, 1)
       IN  decoding' = [decoding EXCEPT !.pc = IF r.panic THEN "panic" ELSE "done",
                                        !.out = r.s, !.err = r.err]
    /\ UNCHANGED <<ep, auth, td, pm, rtc, authDisabled, mdw, cfg, mux, built, req, masking,
                   serving>>

\* decodeParams on the destination
DecodeParams ==
    /\ decoding.pc = "start" /\ decoding.via = "path"
    /\ LET r == decodeParamsFrom(decoding.into, decoding.wire, 1)
       IN  decoding' = [decoding EXCEPT !.pc = IF r.panic THEN "panic" ELSE "done",
                                        !.out = r.s, !.err = r.err]
    /\ UNCHANGED <<ep, auth, td, pm, rtc, authDisabled, mdw, cfg, mux, built, req, masking,
                   serving>>

NextDecode == DecodeURLQuery \/ DecodeParams

SpecDecode == InitDecode /\ [][NextDecode]_vars

(* ----------------------- middlewares and requests ---------------------- *)

\* how many functions one call of AddMiddleware is given, and how many the
\* application registers in all
MaxVariadic == 2

MaxRegistered == 3

\* the values of MiddlewarePos; the arrays of a middlewareSet have an element
\* for the first three
MiddlewarePosValues == MiddlewarePos \cup {"OnErrorResponse"}

\* the application without collaborators and with the first set of options
InitServe == Init /\ cfg.urlPrefix = <<>> /\ ~cfg.mr

\* a registration that puts the new functions in front of the list
AddMiddlewares_prepend ==
    /\ built.result = "none"
    /\ \E pos \in MiddlewarePosValues : \E n \in 1..MaxVariadic :
          /\ mdwCount + n <= MaxRegistered
          /\ IF pos \in MiddlewarePos
             THEN /\ mdw' = [mdw EXCEPT ![pos] = [j \in 1..n |-> mdwCount + j] \o @]
                  /\ built' = built
             ELSE /\ mdw' = mdw
                  /\ built' = [built EXCEPT !.result = "panic", !.via = "AddMiddleware"]
    /\ UNCHANGED <<ep, auth, td, pm, rtc, authDisabled, cfg, mux, req, masking, decoding, serving>>

\* Vatel.AddMiddleware(pos, f...): the functions are appended to the list of
\* the position; the position OnErrorResponse is past the end of the array
\* and the indexing panics
AddMiddlewares ==
    /\ built.result = "none"
    /\ \E pos \in MiddlewarePosValues : \E n \in 1..MaxVariadic :
          /\ mdwCount + n <= MaxRegistered
          /\ IF pos \in MiddlewarePos
             THEN /\ mdw' = [mdw EXCEPT ![pos] = @ \o [j \in 1..n |-> mdwCount + j]]
                  /\ built' = built
             ELSE /\ mdw' = mdw
                  /\ built' = [built EXCEPT !.result = "panic", !.via = "AddMiddleware"]
    /\ UNCHANGED <<ep, auth, td, pm, rtc, authDisabled, cfg, mux, req, masking, decoding, serving>>

NextServe ==
    \/ AddMiddlewares \/ Add \/ BuildHandlers
    \/ Start \/ BeforeAuthorization \/ Authorize \/ Description
    \/ InitController \/ AfterAuthorization \/ Handle \/ WriteResponse
    \/ Complete \/ OnSuccessResponse

SpecServe == InitServe /\ [][NextServe]_vars

(* ------------------------ repeated compile passes ---------------------- *)

\* how many times the application calls BuildHandlers
MaxPasses == 2

\* BuildHandlers called once more after a pass that succeeded, with the router
\* of that pass or with a new one
BuildHandlersAgain ==
    /\ built.result = "ok" /\ built.via = "BuildHandlers"
    /\ built.passes < MaxPasses
    /\ \E routes \in {mux, <<>>} :
          LET r == buildHandlers(ep, routes, Registry)
          IN  /\ ep' = r.ep
              /\ mux' = r.mux
              /\ built' = [result |-> r.result, err |-> r.err, via |-> "BuildHandlers",
                           passes |-> built.passes + 1]
    /\ UNCHANGED <<auth, td, pm, rtc, authDisabled, mdw, cfg, req, masking, decoding, serving>>

NextRebuild ==
    \/ SetAuthorizer \/ SetTokenDecoder \/ SetPermissionManager
    \/ Add \/ BuildHandlers \/ BuildHandlersAgain

SpecRebuild == Init /\ [][NextRebuild]_vars

(* ------------------------- concurrent requests ------------------------- *)

\* the endpoints the concurrent requests are routed to: one that declares a
\* permission and one that does not, both with a path parameter
ServedDeclarations ==
    { Declare(get, PathAId, <<"orders:read">>, Ctl(TRUE, TRUE, TRUE)),
      Declare(PATCH, PathAId, <<>>, Ctl(TRUE, TRUE, TRUE)) }

\* the application after a compile pass that succeeded, with the
\* collaborators bound and one endpoint added
InitConcurrent ==
    /\ cfg \in {o \in Options : ~o.jm /\ ~o.mr}
    /\ auth = TRUE /\ td = TRUE /\ pm = TRUE /\ rtc = FALSE
    /\ authDisabled = FALSE
    /\ mdw = [p \in MiddlewarePos |-> <<>>]
    /\ \E d \in ServedDeclarations :
          LET r == buildHandlers(<<TocEndpoint, d>>, <<>>, Registry)
          IN  /\ ep = r.ep
              /\ mux = r.mux
              /\ built = [result |-> r.result, err |-> r.err, via |-> "BuildHandlers",
                          passes |-> 1]
    /\ req = IdleReq
    /\ masking = IdleMasking
    /\ decoding = IdleDecoding
    /\ \E k \in 1..Len(mux) :
          /\ mux[k].Path = PathAId
          /\ serving = [IdleServing EXCEPT !.e = mux[k].e]

\* the endpoint whose handler serves the concurrent requests
Target == ep[serving.e]

notServing == <<ep, auth, td, pm, rtc, authDisabled, mdw, cfg, mux, built, req, masking, decoding>>

\* the router calls the handler for a request: the handler creates the
\* context of the request (handler, up to NewContext)
ServeNewContext ==
    /\ built.result = "ok"
    /\ \E r \in 1..MaxRequests : \E uv \in PathValues :
          /\ serving.rq[r].pc = "idle"
          /\ LET c == NewContext(serving.ctxs, r)
             IN  serving' = [serving EXCEPT !.ctxs = c.heap,
                                            !.rq[r] = [@ EXCEPT !.pc = "auth", !.ctx = c.ref,
                                                                !.uv = uv]]
    /\ UNCHANGED notServing

\* the authorization block of the handler: the payload of the token is
\* attached to the context of the request with SetTokenPayload
ServeAuthorize ==
    /\ \E r \in 1..MaxRequests :
          /\ serving.rq[r].pc = "auth"
          /\ IF authRequired(Target)
             THEN \E in \in Credentials :
                    LET a == authorize(Target, in)
                    IN  serving' =
                          IF a.err # NilErr
                          THEN [serving EXCEPT !.rq[r] = [@ EXCEPT !.pc = "done", !.failed = TRUE]]
                          ELSE [serving EXCEPT !.ctxs[serving.rq[r].ctx].tp = a.token,
                                               !.rq[r] = [@ EXCEPT !.pc = "init",
                                                                   !.token = a.token]]
             ELSE serving' = [serving EXCEPT !.rq[r].pc = "init"]
    /\ UNCHANGED notServing

\* initController: the controller of the request is obtained from the factory
ServeController ==
    /\ \E r \in 1..MaxRequests :
          /\ serving.rq[r].pc = "init"
          /\ LET n == Controller(serving.ctls)
             IN  serving' = [serving EXCEPT !.ctls = n.heap,
                                            !.rq[r] = [@ EXCEPT !.h = n.ref,
                                                                !.pc = IF Target.isPathParametrized
                                                                       THEN "decode" ELSE "handle"]]
    /\ UNCHANGED notServing

\* initController: the path values are decoded into what Param() of the
\* controller of the request points to
ServeDecodeParams ==
    /\ \E r \in 1..MaxRequests :
          /\ serving.rq[r].pc = "decode"
          /\ LET h == serving.rq[r].h
                 d == decodeParamsFrom(serving.ctls[h].param, serving.rq[r].uv, 1)
             IN  serving' = [serving EXCEPT !.ctls[h].param = d.s,
                                            !.rq[r] = [@ EXCEPT !.pc = IF d.err # NilErr \/ d.panic
                                                                       THEN "done" ELSE "handle",
                                                                !.failed = d.err # NilErr \/ d.panic]]
    /\ UNCHANGED notServing

\* Handle of the controller of the request: it reads the token payload of
\* its context and the structure its Param() points to
ServeHandle ==
    /\ \E r \in 1..MaxRequests :
          /\ serving.rq[r].pc = "handle"
          /\ serving' = [serving EXCEPT !.rq[r] =
                           [@ EXCEPT !.pc = "done",
                                     !.seenTp = serving.ctxs[serving.rq[r].ctx].tp,
                                     !.seenParam = serving.ctls[serving.rq[r].h].param]]
    /\ UNCHANGED notServing

NextConcurrent ==
    \/ ServeNewContext \/ ServeAuthorize \/ ServeController
    \/ ServeDecodeParams \/ ServeHandle

SpecConcurrent == InitConcurrent /\ [][NextConcurrent]_vars

(* ------------------------------- claims -------------------------------- *)

InTrace(stage) == \E i \in DOMAIN req.trace : req.trace[i].stage = stage

\* the position of a call in the pipeline of the handler
Rank(stage) ==
    CASE stage = "BeforeAuthorization" -> 10
      [] stage = "authorize" -> 20
      [] stage = "IsTokenRevoked" -> 21
      [] stage = "Decode" -> 22
      [] stage = "IsAllowed" -> 23
      [] stage = "handleDescription" -> 25
      [] stage = "Controller" -> 30
      [] stage = "decodeParams" -> 31
      [] stage = "decodeURLQuery" -> 32
      [] stage = "decodeBody" -> 32
      [] stage = "AfterAuthorization" -> 40
      [] stage = "log enter" -> 45
      [] stage = "Handle" -> 50
      [] stage = "writeResponse" -> 60
      [] stage = "log exit" -> 70
      [] stage = "ReportMetric" -> 71
      [] stage = "OnSuccessResponse" -> 80
      [] stage = "writeErrorResponse" -> 90
      [] stage = "Alarm" -> 92

\* the rank of the last call a stage of the handler makes
LastRank(pc) ==
    CASE pc = "before" -> 10
      [] pc = "auth" -> 23
      [] pc = "init" -> 32
      [] pc = "after" -> 40
      [] pc = "handle" -> 50
      [] pc = "write" -> 60

CallsOf(pos) == {i \in DOMAIN req.trace : req.trace[i].stage = pos}

\* C1: on an endpoint that declares permissions and has an authorizer bound,
\* Handle is invoked in a request only if in that request the Authorization
\* header was present, the revocation checker (when bound) answered "not
\* revoked", Decode returned no error and IsAllowed returned true, no error.
C1_HandleOnlyWhenAuthorized ==
    (req.pc # "idle" /\ Len(E.Perms) > 0 /\ E.auth /\ InTrace("Handle")) =>
        /\ req.hdr = "present"
        /\ req.revoked = (IF E.rtc THEN "ok" ELSE "notcalled")
        /\ req.decoded = "ok"
        /\ req.allowed = "true"

C1_Witness ==
    /\ req.pc # "idle" /\ Len(E.Perms) > 0 /\ E.auth /\ E.rtc
    /\ InTrace("Handle") /\ req.allowed = "true"

\* C2: in a request that completes without error every call of the pipeline
\* is made at most once and in the order before-authorization middlewares,
\* authorization, controller instantiation, path decoding, query or body
\* decoding, after-authorization middlewares, Handle, response write,
\* completion log, metric report with status 200, on-success middlewares;
\* without the description flag none of the applicable stages is missing.
C2_SuccessOrder ==
    (req.pc = "done" /\ req.failedAt = "none") =>
        /\ \A i, j \in DOMAIN req.trace :
              i < j => \/ Rank(req.trace[i].stage) < Rank(req.trace[j].stage)
                       \/ /\ req.trace[i].stage = req.trace[j].stage
                          /\ req.trace[i].stage \in MiddlewarePos
                          /\ req.trace[i].n # req.trace[j].n
        /\ \A i \in DOMAIN req.trace : req.trace[i].stage = "ReportMetric" => req.trace[i].n = 200
        /\ ~req.descr =>
              /\ \A pos \in MiddlewarePos : Cardinality(CallsOf(pos)) = Len(E.middlewares[pos])
              /\ (Len(E.Perms) > 0 /\ E.auth) => (InTrace("authorize") /\ InTrace("IsAllowed"))
              /\ InTrace("Controller") /\ InTrace("Handle")
              /\ E.isPathParametrized => InTrace("decodeParams")
              /\ E.isURLQueryExpected => InTrace("decodeURLQuery")
              /\ E.isRequestBodyExpected => InTrace("decodeBody")
              /\ E.hasRespBody => InTrace("writeResponse")
              /\ E.mr => InTrace("ReportMetric")

C2_Witness ==
    /\ req.pc = "done" /\ req.failedAt = "none" /\ ~req.descr
    /\ InTrace("BeforeAuthorization")
    /\ InTrace("IsAllowed") /\ InTrace("decodeParams") /\ InTrace("decodeURLQuery")
    /\ InTrace("writeResponse") /\ InTrace("log exit") /\ InTrace("ReportMetric")

\* C3: when a before-authorization middleware, the authorization, the
\* decoding, an after-authorization middleware, the controller or the
\* response serialization returns an error, the request ends with one error
\* body for that error, and no call of a later stage is made: after the error
\* response only its own metric report and alarm, and no report of status 200.
C3_ErrorShortCircuits ==
    (req.failedAt \in {"before", "auth", "init", "after", "handle", "write"}) =>
        /\ req.pc = "done"
        /\ req.err # NilErr
        /\ req.body = <<[kind |-> "error", message |-> req.err.msg, code |-> req.err.code,
                         verbose |-> req.verbose]>>
        /\ Cardinality(CallsOf("writeErrorResponse")) = 1
        /\ \A i, j \in DOMAIN req.trace :
              (req.trace[i].stage = "writeErrorResponse" /\ j < i)
                  => Rank(req.trace[j].stage) <= LastRank(req.failedAt)
        /\ \A i, j \in DOMAIN req.trace :
              (req.trace[i].stage = "writeErrorResponse" /\ j > i)
                  => /\ req.trace[j].stage \in {"ReportMetric", "Alarm"}
                     /\ req.trace[j].n = req.status
        /\ Len(req.metrics) <= 1
        /\ \A k \in DOMAIN req.metrics : req.metrics[k] = req.status /\ req.status # 200

C3_Witness ==
    /\ req.failedAt = "after" /\ req.pc = "done"
    /\ InTrace("Controller") /\ ~InTrace("Handle") /\ Len(req.metrics) = 1

C5_RevocationBeforeDecode ==
    /\ (req.revoked = "revoked") =>
          /\ req.pc = "done" /\ req.status = 401
          /\ req.err.msg = "access token revoked"
          /\ req.decoded = "notcalled" /\ ~InTrace("Decode")
    /\ (req.revoked = "err") =>
          /\ req.pc = "done" /\ req.err # NilErr /\ req.failedAt = "auth"
          /\ req.decoded = "notcalled" /\ ~InTrace("Decode")
    /\ (req.pc # "idle" /\ E.rtc /\ InTrace("Decode")) =>
          \E j \in DOMAIN req.trace :
              /\ req.trace[j].stage = "IsTokenRevoked"
              /\ \A i \in DOMAIN req.trace : req.trace[i].stage = "Decode" => j < i

C5_Witness == req.revoked = "revoked" /\ req.pc = "done"

\* C6: when the credential decodes and IsAllowed returns false with no error,
\* the request is rejected with status 403 and the error carries the login
\* and the role of the identity and the permission names of the endpoint.
C6_Forbidden ==
    (req.decoded = "ok" /\ req.allowed = "false") =>
        /\ req.pc = "done"
        /\ req.status = 403
        /\ req.err.user = req.token.login
        /\ req.err.role = req.token.role
        /\ req.err.perms = E.Perms
        /\ ~InTrace("Handle")

C6_Witness ==
    /\ req.decoded = "ok" /\ req.allowed = "false" /\ req.token.login = "bob"
    /\ Len(E.Perms) = 2

\* C7: every authentication failure on a permission-bearing endpoint yields
\* status 401: a missing header, a revoked credential, an error of Decode and
\* an error of IsAllowed.
C7_AuthFailuresAre401 ==
    (req.hdr = "missing" \/ req.revoked = "revoked" \/ req.decoded = "err"
       \/ req.allowed = "err") => req.status = 401

\* the index of the endpoint at which the compile pass stopped (one past
\* the last registered endpoint)
StopIdx == Len(mux) + 1

Stopped == built.result # "none" /\ StopIdx <= Len(ep)

HasUnknownPerm(e) == \E k \in DOMAIN e.Perms : e.Perms[k] \notin KnownPerms

DeclaredPaths == {d.Path : d \in Declarations \cup {TocEndpoint}}

CollaboratorMessages ==
    { "requires calling SetAuthorizer() before",
      "requires calling SetTokenDecode() before",
      "requires calling SetPermissionManager() before" }

C9_DisabledAuthorizerPassesCheck ==
    (Stopped /\ authDisabled /\ Len(ep[StopIdx].Perms) > 0 /\ (~auth \/ ~td \/ ~pm)) =>
        /\ built.err.msg \notin CollaboratorMessages
        /\ built.result = "panic" => pm

\* C10: an endpoint is compiled successfully only if its path has a
\* placeholder exactly when its controller implements Paramer, and then
\* isPathParametrized tells whether the path has a placeholder; an endpoint
\* that reaches the check with a placeholder and no Paramer, or with a Paramer
\* and no placeholder, fails with the error of that case.
C10_PlaceholderIffParamer ==
    /\ \A k \in DOMAIN mux :
          /\ pathHasParam(ep[mux[k].e].Path) = ep[mux[k].e].Controller.paramer
          /\ ep[mux[k].e].isPathParametrized = pathHasParam(ep[mux[k].e].Path)
    /\ (Stopped /\ pathHasParam(ep[StopIdx].Path) # ep[StopIdx].Controller.paramer
          /\ (Len(ep[StopIdx].Perms) = 0
                \/ (pm /\ (authDisabled \/ (auth /\ td)) /\ ~HasUnknownPerm(ep[StopIdx])))) =>
          /\ built.result = "error"
          /\ built.err.msg =
                IF ep[StopIdx].Controller.paramer
                THEN "path has no parameters, but controller implement Paramer"
                ELSE "path has parameters, but controller does not implement Paramer"

C10_Witness ==
    /\ built.result = "ok"
    /\ \E k \in DOMAIN mux : ep[mux[k].e].isPathParametrized /\ pathHasParam(mux[k].Path)

\* the endpoint at which the compile pass stopped gets as far as the method
\* switch of compile: no permission block, the contract check passes and the
\* field metadata of its result can be computed
ReachesMethodSwitch(e) ==
    /\ Len(e.Perms) = 0
    /\ pathHasParam(e.Path) = e.Controller.paramer
    /\ ~(e.Controller.resulter /\ cfg.jm /\ ~e.Controller.resultStruct)

\* C11: after a successful compile an endpoint has isURLQueryExpected set
\* exactly when its controller is an Inputer and its method is GET or DELETE,
\* and isRequestBodyExpected exactly when its controller is an Inputer and its
\* method is POST, PUT or PATCH; the two flags are never both set; an endpoint
\* with any other method fails compilation with the unknown-method error.
C11_MethodWiring ==
    /\ \A k \in DOMAIN mux :
          LET e == ep[mux[k].e]
          IN  /\ e.Method \in {GET, DELETE, POST, PUT, PATCH}
              /\ e.isURLQueryExpected = (e.Controller.inputer /\ e.Method \in {GET, DELETE})
              /\ e.isRequestBodyExpected =
                    (e.Controller.inputer /\ e.Method \in {POST, PUT, PATCH})
              /\ ~(e.isURLQueryExpected /\ e.isRequestBodyExpected)
    /\ (Stopped /\ ReachesMethodSwitch(ep[StopIdx])
          /\ ep[StopIdx].Method \notin {GET, DELETE, POST, PUT, PATCH}) =>
          /\ built.err.msg = "has unknown HTTP method"
          /\ built.err.method = ep[StopIdx].Method
          /\ built.result = (IF built.via = "BuildHandlers" THEN "error" ELSE "panic")

C11_Witness ==
    /\ built.result = "ok"
    /\ \E k \in DOMAIN mux : mux[k].Method = DELETE /\ ep[mux[k].e].isURLQueryExpected
    /\ \E k \in DOMAIN mux : mux[k].Method = POST /\ ep[mux[k].e].isRequestBodyExpected

\* the paths of the endpoints as they are declared
CompilePaths == {d.Path : d \in CompileDeclarations \cup {TocEndpoint}}

\* the declared path of a compiled endpoint, whose Path carries the prefix
DeclaredPathOf(path) == CHOOSE d \in CompilePaths : Join(cfg.urlPrefix, d) = path

\* C12: the compile pass upper-cases every method and registers the endpoints
\* in ascending order of declared path, endpoints with equal path in ascending
\* order of method: the route at position k is the k-th smallest (declared
\* path, method) of the registered ones, so with pairwise distinct pairs the
\* registration order does not depend on the order of the Add calls.
C12_RegistrationOrder ==
    (built.result # "none") =>
        /\ \A i \in DOMAIN ep : ep[i].Method = ToUpper(ep[i].Method)
        /\ \A k \in DOMAIN mux :
              /\ mux[k].e = k
              /\ mux[k].Method = ep[k].Method /\ mux[k].Path = ep[k].Path
              /\ \E d \in CompilePaths : Join(cfg.urlPrefix, d) = mux[k].Path
        /\ \A i, j \in DOMAIN mux :
              i < j =>
                 \/ StrLess(DeclaredPathOf(mux[i].Path), DeclaredPathOf(mux[j].Path))
                 \/ /\ DeclaredPathOf(mux[i].Path) = DeclaredPathOf(mux[j].Path)
                    /\ StrLess(mux[i].Method, mux[j].Method)

C12_Witness ==
    /\ built.result = "ok" /\ Len(mux) = 3
    /\ mux[2].Path = mux[3].Path
    /\ mux[2].Method = POST /\ mux[3].Method = PUT

\* the indexes of the endpoints the error of the compile pass names
NamedByError ==
    {i \in DOMAIN ep : /\ ep[i].Method = built.err.method
                       /\ ep[i].Path = Join(cfg.urlPrefix, built.err.path)}

\* the first of them in the sorted list
FailedIdx == CHOOSE i \in NamedByError : \A j \in NamedByError : i <= j

\* a declared endpoint on which compile has not run: only its method is
\* upper-cased
Uncompiled(e) ==
    \E d \in CompileDeclarations : e = [d EXCEPT !.Method = ToUpper(d.Method)]

\* C13: when the compile of an endpoint fails the pass stops there:
\* BuildHandlers returns the error of that endpoint, every registered route
\* sorts before the failing endpoint, and compile has not run on any endpoint
\* after it.
C13_StopsAtFirstFailure ==
    (built.result # "none" /\ built.err # NoError) =>
        /\ NamedByError # {}
        /\ built.via = "BuildHandlers" => built.result = "error"
        /\ \A k \in DOMAIN mux : mux[k].e < FailedIdx
        /\ \A j \in DOMAIN ep :
              j >= FailedIdx =>
                  ~\E k \in DOMAIN mux : mux[k].Method = ep[j].Method /\ mux[k].Path = ep[j].Path
        /\ \A j \in DOMAIN ep : j > FailedIdx => Uncompiled(ep[j])

C13_Witness ==
    /\ built.result = "error" /\ built.via = "BuildHandlers"
    /\ cfg.urlPrefix = PrefixApi
    /\ Len(mux) = 1 /\ FailedIdx = 2 /\ Len(ep) = 3
    /\ built.err.msg = "has unknown HTTP method"
    /\ ep[3].Method = DELETE

\* C14: BuildHandlers reports every configuration error of the declared
\* endpoints as a returned error and never panics; MustBuildHandlers panics
\* exactly when BuildHandlers would return an error.
C14_BuildHandlersNeverPanics ==
    /\ built.via = "BuildHandlers" => built.result # "panic"
    /\ built.via = "MustBuildHandlers" => ((built.result = "panic") = (built.err # NoError))

\* C15: when no Authorizer has been assigned with SetAuthorizer the Perms of
\* the endpoints are ignored: the compile pass does not stop at an endpoint
\* because the authorizer is missing, and no request runs the authorization
\* step.
C15_PermsIgnoredWithoutAuthorizer ==
    /\ (built.result # "none" /\ ~auth) =>
          built.err.msg # "requires calling SetAuthorizer() before"
    /\ (req.pc # "idle" /\ ~auth) => ~InTrace("authorize")

\* C16: in a request whose controller returns no error on an endpoint whose
\* controller produces a result, once the result is serialized the response
\* body starts with the unmasked serialization of Result() and carries the
\* content type of the endpoint, whatever the log options are and whether a
\* masker is configured or not.
C16_ResultBodyWritten ==
    (req.pc # "idle" /\ InTrace("writeResponse") /\ req.failedAt # "write") =>
        /\ Len(req.body) >= 1
        /\ req.body[1].kind = "result"
        /\ req.ctype = "application/json; charset=utf-8"
        /\ req.failedAt = "none" => Len(req.body) = 1

\* C17: every error response sets the HTTP status to the status code the
\* error carries, and to 500 when the error is not a status-carrying error
\* value, and writes a JSON error body for that error with a JSON content
\* type.
C17_ErrorResponseStatus ==
    (req.failedAt # "none") =>
        /\ req.err # NilErr
        /\ req.status = (IF req.err.kind = "catched" THEN req.err.status ELSE 500)
        /\ req.ctype = "application/json; charset=utf-8"
        /\ Len(req.body) >= 1
        /\ req.body[Len(req.body)] = [kind |-> "error", message |-> req.err.msg,
                                      code |-> req.err.code, verbose |-> req.verbose]

C17_Witness ==
    /\ req.failedAt = "handle" /\ req.err.kind = "plain" /\ req.status = 500
    /\ Len(req.body) = 1

\* C18: with the metric reporter and the alarmer bound, a request whose
\* controller returns an error with status s produces exactly one metric
\* report, carrying s, and exactly one alarm if s >= 500 and none if s < 500.
C18_OneMetricOneAlarm ==
    (req.failedAt = "handle" /\ E.mr /\ E.ala) =>
        /\ req.metrics = <<req.status>>
        /\ Cardinality(CallsOf("ReportMetric")) = 1
        /\ req.alarms = (IF req.status >= 500 THEN 1 ELSE 0)
        /\ Cardinality(CallsOf("Alarm")) = req.alarms
        /\ req.err.kind = "catched" => req.status = req.err.status

C18_Witness ==
    /\ req.failedAt = "handle" /\ E.mr /\ E.ala
    /\ req.status = 500 /\ req.alarms = 1 /\ req.metrics = <<500>>

\* C19: a request to a compiled endpoint ends with a success or an error
\* response and the dispatcher never panics, whatever the path values, the
\* query values, the body and the values of the attribute bag are; the only
\* panic is the one of decodeParams on a path value that is not a string.
C19_DispatcherNeverPanics ==
    (req.pc = "panic") =>
        /\ Len(req.trace) > 0
        /\ req.trace[Len(req.trace)].stage = "decodeParams"

\* the array "emails" of a document, empty when the document has none
EmailsOf(doc) == IF "emails" \in DOMAIN doc.m THEN doc.m["emails"].a ELSE <<>>

\* the array "phones" of an element, empty when the element has none
PhonesOf(el) == IF "phones" \in DOMAIN el.m THEN el.m["phones"].a ELSE <<>>

\* the keys of an object other than the given ones keep their values
KeepsOthers(before, after, keys) ==
    /\ DOMAIN after.m \ keys = DOMAIN before.m \ keys
    /\ \A k \in DOMAIN before.m \ keys : after.m[k] = before.m[k]

\* C20: masking a document whose field tree has a slice-of-structure field
\* with a child marked "-" removes that key from every element of the array
\* and from nothing else: the array keeps its elements in number and order
\* and every other key of every element keeps its value. Stated for the
\* child typeId of the slice emails and for the child num of the slice phones
\* of the elements of emails.
C20_DashRemovedFromEveryElement ==
    (masking.pc = "done") =>
        LET src == masking.src
            dst == masking.dst
            emails == masking.fields[2].child
            phones == emails[3].child
        IN  /\ masking.err = "nil"
            /\ Len(EmailsOf(dst)) = Len(EmailsOf(src))
            /\ \A j \in DOMAIN EmailsOf(src) :
                  Len(PhonesOf(EmailsOf(dst)[j])) = Len(PhonesOf(EmailsOf(src)[j]))
            /\ emails[2].tag = "-" =>
                  \A j \in DOMAIN EmailsOf(src) :
                      /\ "typeId" \notin DOMAIN EmailsOf(dst)[j].m
                      /\ emails[1].tag \notin RegisteredFuncs =>
                            KeepsOthers(EmailsOf(src)[j], EmailsOf(dst)[j], {"typeId", "phones"})
            /\ phones[1].tag = "-" =>
                  \A j \in DOMAIN EmailsOf(src) :
                      \A l \in DOMAIN PhonesOf(EmailsOf(src)[j]) :
                          /\ "num" \notin DOMAIN PhonesOf(EmailsOf(dst)[j])[l].m
                          /\ KeepsOthers(PhonesOf(EmailsOf(src)[j])[l],
                                         PhonesOf(EmailsOf(dst)[j])[l], {"num"})

\* a directive that is neither empty nor "-" and names no registered function
IsUnknown(tag) == tag \notin ({"", "-"} \cup RegisteredFuncs)

\* C21: Mask with a field whose directive is neither empty nor "-" and names
\* no registered masking function returns no error and leaves the value of
\* that attribute unchanged, at the top level of the document and in the
\* elements of a slice.
C21_UnknownDirectiveIsNoOp ==
    (masking.pc = "done") =>
        LET src == masking.src
            dst == masking.dst
            emails == masking.fields[2].child
        IN  /\ masking.err = "nil"
            /\ IsUnknown(masking.fields[1].tag) =>
                  ("id" \in DOMAIN dst.m /\ dst.m["id"] = src.m["id"])
            /\ IsUnknown(emails[1].tag) =>
                  /\ Len(EmailsOf(dst)) = Len(EmailsOf(src))
                  /\ \A j \in DOMAIN EmailsOf(src) :
                        /\ "email" \in DOMAIN EmailsOf(dst)[j].m
                        /\ EmailsOf(dst)[j].m["email"] = EmailsOf(src)[j].m["email"]

C21_Witness ==
    /\ masking.pc = "done"
    /\ IsUnknown(masking.fields[1].tag) /\ IsUnknown(masking.fields[2].child[1].tag)
    /\ masking.fields[2].child[2].tag = "-"
    /\ Len(EmailsOf(masking.src)) = 2 /\ masking.dst # masking.src

\* no directive of the field tree is "-" or the name of a registered function
Inoperative(fields) ==
    /\ fields[1].tag \notin ({"-"} \cup RegisteredFuncs)
    /\ \A i \in DOMAIN fields[2].child :
          fields[2].child[i].tag \notin ({"-"} \cup RegisteredFuncs)
    /\ \A i \in DOMAIN fields[2].child[3].child :
          fields[2].child[3].child[i].tag \notin ({"-"} \cup RegisteredFuncs)

\* C22: Mask leaves every attribute whose directive is empty untouched, and
\* for a field set in which no directive is "-" or a registered function name
\* masking the result again gives the same result.
C22_EmptyDirectiveUntouched ==
    /\ (masking.pc \in {"done", "twice"}) =>
          LET src == masking.src
              dst == masking.dst
              emails == masking.fields[2].child
          IN  /\ masking.fields[1].tag = "" =>
                    ("id" \in DOMAIN dst.m /\ dst.m["id"] = src.m["id"])
              /\ Len(EmailsOf(dst)) = Len(EmailsOf(src))
              /\ \A j \in DOMAIN EmailsOf(src) :
                    /\ emails[1].tag = "" =>
                          /\ "email" \in DOMAIN EmailsOf(dst)[j].m
                          /\ EmailsOf(dst)[j].m["email"] = EmailsOf(src)[j].m["email"]
                    /\ emails[2].tag = "" =>
                          /\ ("typeId" \in DOMAIN EmailsOf(dst)[j].m)
                               = ("typeId" \in DOMAIN EmailsOf(src)[j].m)
                          /\ "typeId" \in DOMAIN EmailsOf(src)[j].m =>
                                EmailsOf(dst)[j].m["typeId"] = EmailsOf(src)[j].m["typeId"]
                    /\ Len(PhonesOf(EmailsOf(dst)[j])) = Len(PhonesOf(EmailsOf(src)[j]))
                    /\ \A l \in DOMAIN PhonesOf(EmailsOf(src)[j]) :
                          PhonesOf(EmailsOf(dst)[j])[l].m["kind"]
                             = PhonesOf(EmailsOf(src)[j])[l].m["kind"]
    /\ (masking.pc = "twice" /\ Inoperative(masking.fields)) =>
          /\ masking.err = "nil"
          /\ masking.again = masking.dst

C22_Witness ==
    /\ masking.pc = "twice" /\ Inoperative(masking.fields)
    /\ IsUnknown(masking.fields[1].tag) /\ masking.fields[2].child[2].tag = ""
    /\ Len(EmailsOf(masking.src)) = 2 /\ masking.again = masking.src

\* C23: Mask never changes the buffer it is given: no step of the masker
\* writes src, whose content after the call is the content before it, and
\* the result is held by another buffer.
C23_SourceBufferUnchanged == [][masking'.src = masking.src]_vars

C23_Witness == masking.pc = "done" /\ masking.dst # masking.src

\* the types the query decoder is said to assign
Assignable == {"int", "int8", "int16", "uint", "uint8", "string", "bool", "float64", "float32",
               "date.Date"}

\* what the texts of the model denote, by the type of the field: decimal
\* integers, the booleans of strconv, decimal fractions, and for a date the
\* packed value 0xYYYYMMDD (0x20210901 is 539035905)
Denotations(type) ==
    IF type = "date.Date" THEN { <<V_2021_09_01, 539035905>> }
    ELSE IF KindOf(type) = "Int"
    THEN { <<V_1, 1>>, <<V_minus7, 0 - 7>>, <<V_300, 300>>, <<V_20210901, 20210901>> }
    ELSE IF KindOf(type) = "Uint"
    THEN { <<V_1, 1>>, <<V_300, 300>>, <<V_20210901, 20210901>> }
    ELSE IF KindOf(type) = "Bool" THEN { <<V_1, TRUE>>, <<V_true, TRUE>> }
    ELSE IF KindOf(type) \in {"Float64", "Float32"}
    THEN { <<V_1, [m |-> 1, e |-> 0, bits |-> BitsOf(type)]>>,
           <<V_minus7, [m |-> 0 - 7, e |-> 0, bits |-> BitsOf(type)]>>,
           <<V_300, [m |-> 3, e |-> 2, bits |-> BitsOf(type)]>>,
           <<V_0_5, [m |-> 5, e |-> 0 - 1, bits |-> BitsOf(type)]>>,
           <<V_20210901, [m |-> 20210901, e |-> 0, bits |-> BitsOf(type)]>> }
    ELSE IF type = "string"
    THEN { <<v.val, v.val>> : v \in WireValues }
    ELSE {}

\* the field is one the decoder is to assign from the values w
Addressed(f, w) == f.exported /\ f.tag # "" /\ w[f.tag].present

\* every addressed field of the structure s and of the structures nested in
\* it has an assignable type and a value that denotes something of that type
RECURSIVE WellFormed(_, _)
WellFormed(s, w) ==
    \A i \in DOMAIN s :
        IF s[i].exported /\ ~s[i].ptr /\ s[i].type = "struct" THEN WellFormed(s[i].sub, w)
        ELSE Addressed(s[i], w) =>
                /\ s[i].type \in Assignable
                /\ \E d \in Denotations(s[i].type) : d[1] = w[s[i].tag].val

\* every addressed field of the structure s and of the structures nested in
\* it holds what the value of its key denotes
RECURSIVE Assigned(_, _)
Assigned(s, w) ==
    \A i \in DOMAIN s :
        IF s[i].exported /\ ~s[i].ptr /\ s[i].type = "struct" THEN Assigned(s[i].sub, w)
        ELSE Addressed(s[i], w) =>
                /\ ~s[i].isNil
                /\ \E d \in Denotations(s[i].type) :
                      d[1] = w[s[i].tag].val /\ s[i].val = d[2]

\* C24: query decoding assigns to every settable field that has a param tag,
\* in the destination structure and in its nested non-pointer structures at
\* any depth, the value the text of its query key denotes for the type of the
\* field (integers, strings, booleans, floats and the packed 0xYYYYMMDD of a
\* date), to each of the fields that name the same key, and returns no error.
C24_QueryValuesAssigned ==
    (/\ decoding.via = "query" /\ decoding.pc \in {"done", "panic"}
     /\ WellFormed(decoding.into, decoding.wire))
        => /\ decoding.pc = "done" /\ decoding.err = NilErr
           /\ Assigned(decoding.out, decoding.wire)

\* the field is of a numeric or boolean type and the text does not parse as one
FailsParsing(f, w) ==
    /\ Addressed(f, w)
    /\ f.type \in Assignable \ {"string", "date.Date"}
    /\ \A d \in Denotations(f.type) : d[1] # w[f.tag].val

\* some field of the structure s or of the structures nested in it has a
\* value that fails parsing
RECURSIVE SomeFailsParsing(_, _)
SomeFailsParsing(s, w) ==
    \E i \in DOMAIN s :
        IF s[i].exported /\ ~s[i].ptr /\ s[i].type = "struct" THEN SomeFailsParsing(s[i].sub, w)
        ELSE FailsParsing(s[i], w)

\* nothing but a parse failure can stop the decoder: every addressed field is
\* well formed or fails parsing, and a path field has its value and a type of
\* the type switch
RECURSIVE OnlyParseFailures(_, _, _)
OnlyParseFailures(s, w, via) ==
    \A i \in DOMAIN s :
        IF s[i].exported /\ ~s[i].ptr /\ s[i].type = "struct"
        THEN via = "query" /\ OnlyParseFailures(s[i].sub, w, via)
        ELSE /\ Addressed(s[i], w) =>
                  \/ FailsParsing(s[i], w)
                  \/ /\ s[i].type \in Assignable
                     /\ \E d \in Denotations(s[i].type) : d[1] = w[s[i].tag].val
                     /\ ~(s[i].ptr /\ s[i].type = "date.Date")
             /\ (via = "path" /\ s[i].exported /\ s[i].tag # "") =>
                  /\ w[s[i].tag].present
                  /\ ~s[i].ptr /\ s[i].type # "date.Date"

\* the fields whose value fails parsing are as they were
RECURSIVE FailedUntouched(_, _, _)
FailedUntouched(into, out, w) ==
    \A i \in DOMAIN into :
        IF into[i].exported /\ ~into[i].ptr /\ into[i].type = "struct"
        THEN FailedUntouched(into[i].sub, out[i].sub, w)
        ELSE FailsParsing(into[i], w) => out[i] = into[i]

\* C25: a path or query value that fails numeric or boolean parsing makes the
\* decoder return a validation error that carries the text of the parse
\* error and whose HTTP status is in the 4xx class, and the field keeps the
\* value it had.
C25_ParseFailureIsValidationError ==
    (/\ decoding.pc \in {"done", "panic"}
     /\ OnlyParseFailures(decoding.into, decoding.wire, decoding.via)
     /\ SomeFailsParsing(decoding.into, decoding.wire))
        => /\ decoding.pc = "done"
           /\ decoding.err.kind = "catched"
           /\ Catch(decoding.err).status \in 400..499
           /\ decoding.err.msg \in {"invalid syntax", "value out of range"}
           /\ FailedUntouched(decoding.into, decoding.out, decoding.wire)

\* C26: a request to an endpoint that takes its input from the body (POST,
\* PUT, PATCH) whose body is empty or is not parsable as the expected JSON
\* gets an error response with HTTP status 400; the body decoder does not
\* panic and the controller's Handle is not called.
C26_BadBodyIs400 ==
    /\ (req.pc = "panic") => req.trace[Len(req.trace)].stage # "decodeBody"
    /\ (req.failedAt = "init" /\ InTrace("decodeBody")) =>
          /\ req.status = 400
          /\ ~InTrace("Handle")

\* the middlewares called at a position in the request, in the order of the
\* calls
CalledAt(pos) ==
    LET calls == SelectSeq(req.trace, LAMBDA ev : ev.stage = pos)
    IN  [i \in DOMAIN calls |-> calls[i].n]

\* the middlewares registered for a position; their numbers are handed out in
\* the order of registration
RegisteredAt(pos) == {mdw[pos][i] : i \in DOMAIN mdw[pos]}

\* C27: the middlewares registered for a position before the compile pass
\* are called in the order in which they were added, across the calls of
\* AddMiddleware: the i-th call of a position is that of the i-th registered
\* middleware, and a request that completes without error has called every
\* one of them.
C27_MiddlewaresInRegistrationOrder ==
    \A pos \in MiddlewarePos :
        /\ \A i \in DOMAIN CalledAt(pos) :
              /\ CalledAt(pos)[i] \in RegisteredAt(pos)
              /\ Cardinality({x \in RegisteredAt(pos) : x < CalledAt(pos)[i]}) = i - 1
        /\ (req.pc = "done" /\ req.failedAt = "none" /\ ~req.descr) =>
              Len(CalledAt(pos)) = Cardinality(RegisteredAt(pos))

C27_Witness ==
    /\ req.pc = "done" /\ req.failedAt = "none" /\ ~req.descr
    /\ mdw["BeforeAuthorization"] = <<1, 3>> /\ mdw["AfterAuthorization"] = <<2>>
    /\ CalledAt("BeforeAuthorization") = <<1, 3>>

\* C28: callables can be registered under each of the four positions
\* (before-authorization, after-authorization, on-success, on-error) and the
\* registration under any of them succeeds.
C28_RegistrationNeverPanics == ~(built.result = "panic" /\ built.via = "AddMiddleware")

\* C29: when the logging level is dynamic, every read of the log-option
\* bitmask of the endpoint made while a request is dispatched is an atomic
\* load.
C29_LogOptionReadsAreAtomic ==
    (req.pc # "idle" /\ ~E.staticLoggingLevel) =>
        \A i \in DOMAIN req.loReads : req.loReads[i] = "atomic"

InRangeOf(type, x) ==
    IF BitsOf(type) >= 32 THEN KindOf(type) = "Int" \/ x >= 0
    ELSE IF KindOf(type) = "Int"
    THEN x >= 0 - Pow2(BitsOf(type) - 1) /\ x < Pow2(BitsOf(type) - 1)
    ELSE x >= 0 /\ x < Pow2(BitsOf(type))

\* the field is of an integer type and the text of its key is a decimal
\* integer outside the range of that type
OutOfRange(f, w) ==
    /\ Addressed(f, w) /\ ~f.ptr
    /\ f.type \in {"int", "int8", "int16", "uint", "uint8"}
    /\ \E d \in Denotations("int") : d[1] = w[f.tag].val /\ ~InRangeOf(f.type, d[2])

\* C33: decoding a path or query value into an integer field of width w fails
\* with a validation error for every value outside the range of that width,
\* and the field is left as it was: it never holds the value reduced modulo
\* 2^w.
C33_OutOfRangeIsRejected ==
    (decoding.pc \in {"done", "panic"}) =>
        \A i \in DOMAIN decoding.into :
            OutOfRange(decoding.into[i], decoding.wire) =>
                /\ decoding.pc = "done"
                /\ decoding.err.kind = "catched" /\ decoding.err.status \in 400..499
                /\ decoding.out[i].val = decoding.into[i].val

\* the fields the decoder is not to assign (no param tag, not settable, or a
\* key that is absent from the values w) are in out as they are in into, in
\* the structure and in the structures nested in it: a nil pointer is nil
RECURSIVE Framed(_, _, _)
Framed(into, out, w) ==
    /\ Len(out) = Len(into)
    /\ \A i \in DOMAIN into :
          IF into[i].exported /\ ~into[i].ptr /\ into[i].type = "struct"
          THEN Framed(into[i].sub, out[i].sub, w)
          ELSE ~Addressed(into[i], w) => out[i] = into[i]

\* the pointer fields whose key is present are allocated, and those to an
\* integer or a boolean point to what the value of the key denotes
RECURSIVE PointersSet(_, _)
PointersSet(out, w) ==
    \A i \in DOMAIN out :
        IF out[i].exported /\ ~out[i].ptr /\ out[i].type = "struct"
        THEN PointersSet(out[i].sub, w)
        ELSE (out[i].ptr /\ Addressed(out[i], w)) =>
                /\ ~out[i].isNil
                /\ out[i].type # "date.Date" =>
                      \E d \in Denotations(out[i].type) :
                          d[1] = w[out[i].tag].val /\ out[i].val = d[2]

\* C34: query decoding leaves unchanged every field that has no param tag and
\* every tagged field whose key is absent from the query string, a nil
\* pointer among them staying nil, whether it returns an error or not; when
\* it returns no error, every pointer field whose key is present is allocated
\* and set.
C34_UnaddressedFieldsUnchanged ==
    (decoding.via = "query" /\ decoding.pc \in {"done", "panic"}) =>
        /\ Framed(decoding.into, decoding.out, decoding.wire)
        /\ (decoding.pc = "done" /\ decoding.err = NilErr) =>
              PointersSet(decoding.out, decoding.wire)

C34_Witness ==
    /\ decoding.via = "query" /\ decoding.pc = "done" /\ decoding.err = NilErr
    /\ Len(decoding.into) = 6 /\ decoding.into[3].name = "Limit"
    /\ decoding.into[3].isNil /\ decoding.into[6].isNil
    /\ decoding.wire["id"] = Value(V_1)
    /\ ~decoding.wire["g"].present /\ ~decoding.wire["deletedOnly"].present
    /\ ~decoding.out[3].isNil /\ decoding.out[3].val = 1
    /\ decoding.out[6].isNil /\ decoding.out[5].val = <<>>

\* C36: a compile pass is all-or-nothing for the router: when BuildHandlers
\* returns an error, no handler of the registry has been registered with the
\* router.
C36_FailedPassRegistersNothing ==
    (built.via = "BuildHandlers" /\ built.result = "error") => mux = <<>>

\* the bit positions of the permission names of an endpoint, in their order
BitPositions(Perms) == [j \in DOMAIN Perms |-> PermissionBitPos(Perms[j]).pos]

\* C35: after any number of successful compile passes over the same registry,
\* each compiled endpoint's list of resolved permission bit positions has
\* exactly one entry per declared permission name, in declaration order, and
\* its resolved path is a declared path joined once with the URL prefix.
C35_CompiledOncePerEndpoint ==
    (built.via = "BuildHandlers" /\ built.result = "ok") =>
        \A i \in DOMAIN ep :
            /\ ep[i].perms = BitPositions(ep[i].Perms)
            /\ \E p \in DeclaredPaths : ep[i].Path = Join(cfg.urlPrefix, p)

\* C37: every dispatched request produces exactly one metric report (metric
\* reporter bound and no description flag), and its status code is the status
\* of the response sent: 200 is never reported for a request that also ends
\* with an error response, including when an on-success middleware fails.
C37_OneMetricWithResponseStatus ==
    (req.pc = "done" /\ E.mr /\ ~req.descr) =>
        /\ Len(req.metrics) = 1
        /\ req.metrics[1] = req.status

\* C38: for every request at most one response body is written: once the
\* serialized result has been written no error body is written to the same
\* response, and once an error body has been written nothing else is written.
C38_AtMostOneBody == Len(req.body) <= 1

\* C39: when authorization has been disabled with DisableAuthorizer, no
\* request to any endpoint is rejected by the authorization step of the
\* dispatcher (no 401 or 403 from the header, revocation, decode or permission
\* checks), whether or not an authorizer is also bound.
C39_DisabledAuthorizerRejectsNothing ==
    authDisabled => req.failedAt # "auth"

\* the calls the handler makes after the description step when the request
\* does not ask for the description
AfterDescription ==
    {"Controller", "decodeParams", "decodeURLQuery", "decodeBody", "AfterAuthorization",
     "log enter", "Handle", "writeResponse", "log exit", "ReportMetric", "OnSuccessResponse",
     "writeErrorResponse"}

InFlight == {r \in 1..MaxRequests : serving.rq[r].pc # "idle"}

\* what the path value of a request denotes
OwnId(r) == IF serving.rq[r].uv["id"].val = V_1 THEN 1 ELSE 300

\* C31: each request gets its own newly created context and its own
\* controller instance obtained from the controller factory: no two requests
\* share a context or a controller, the context of a request belongs to its
\* fasthttp context and holds no payload or the one attached for that request,
\* and what Handle reads, the identity payload of its context and the
\* structure decoded for it, is what was attached and decoded for that
\* request, whatever the other requests running on the same endpoint do.
C31_RequestsShareNothing ==
    /\ \A r1, r2 \in InFlight :
          r1 # r2 =>
              /\ serving.rq[r1].ctx # serving.rq[r2].ctx
              /\ (serving.rq[r1].h # 0 /\ serving.rq[r2].h # 0) =>
                    serving.rq[r1].h # serving.rq[r2].h
    /\ \A r \in InFlight :
          /\ serving.rq[r].ctx \in DOMAIN serving.ctxs
          /\ serving.ctxs[serving.rq[r].ctx].fh = r
          /\ serving.ctxs[serving.rq[r].ctx].tp \in {NoToken, serving.rq[r].token}
          /\ (serving.rq[r].pc = "handle" /\ Len(Target.Perms) > 0) =>
                /\ serving.rq[r].token \in Tokens
                /\ serving.ctxs[serving.rq[r].ctx].tp = serving.rq[r].token
          /\ (serving.rq[r].pc \in {"handle", "done"} /\ ~serving.rq[r].failed) =>
                /\ Len(serving.ctls[serving.rq[r].h].param) = 1
                /\ serving.ctls[serving.rq[r].h].param[1].val = OwnId(r)
          /\ (serving.rq[r].pc = "done" /\ ~serving.rq[r].failed) =>
                /\ serving.rq[r].seenTp = serving.rq[r].token
                /\ serving.rq[r].seenParam[1].val = OwnId(r)

C31_Witness ==
    /\ \A r \in 1..MaxRequests : serving.rq[r].pc = "done" /\ ~serving.rq[r].failed
    /\ serving.rq[1].token # serving.rq[2].token
    /\ serving.rq[1].token \in Tokens /\ serving.rq[2].token \in Tokens
    /\ serving.rq[1].seenParam[1].val = 300 /\ serving.rq[2].seenParam[1].val = 1
    /\ serving.rq[1].ctx = 2 /\ serving.rq[1].h = 1

====
